---- MODULE Spec2Model ----
(***************************************************************************)
(* Take-Note: the Note Store (js/NoteManager.js), the part of the Auth     *)
(* Session (js/Auth.js) that notifies it, and the application wiring       *)
(* (js/app.js) that rebinds the notification.                              *)
(*                                                                         *)
(* JavaScript runs one callback at a time: an action of this module is one *)
(* run of a callback from its start, or from the resumption of an await,   *)
(* to the next await of a remote call.  A remote call is three steps: the  *)
(* request is sent (end of an action), the backend executes it (Server or  *)
(* ServerFail), the awaiting code resumes with the result (a ...Done       *)
(* action).  Responses of different requests may arrive in any order.      *)
(***************************************************************************)
EXTENDS Integers, Sequences, FiniteSets, TLC

\* ---------------------------------------------------------------- bounds
MaxEvents == 3      \* user events, auth events and rejected requests in one run
MaxTasks == 2       \* async Note Store operations in flight at once

\* ------------------------------------------------------------- constants
NoId == 0           \* activeNoteId = null, and '' in the Local Store
NoUser == "none"    \* Auth.user = null
Users == {"u1"}                \* the user of this browser
Accounts == {"u1", "u2"}       \* the accounts of the backend
Contents == {"a", "b"}

UntitledTitle == "Untitled Note"
WelcomeTitle == "Welcome to takenote"
WelcomeLocal == "welcome-local"       \* ... Sign in to sync your notes across devices
WelcomeRemote == "welcome-remote"     \* ... Access your notes from anywhere when signed in
WelcomeError == "welcome-error"       \* ... Start taking notes.

VARIABLES
    user,             \* Auth.user
    handler,          \* what Auth.onUserChange is bound to: "nm" or "app"
    notes,            \* NoteManager.notes
    activeNoteId,     \* NoteManager.activeNoteId
    useDatabase,      \* NoteManager.useDatabase
    ls,               \* localStorage: 'takenote-notes' and 'takenote-active-id'
    db,               \* the remote table 'notes'
    tasks,            \* async Note Store operations suspended at a remote call
    timers,           \* the browser's pending timeouts set by autoSaveNote
    autoSaveTimeout,  \* NoteManager.autoSaveTimeout (a timer handle)
    nextTimer,        \* the next timer handle setTimeout returns
    nextId,           \* source of fresh identifiers (generateId, backend ids)
    clock,            \* source of timestamps (Date.now, backend now())
    events,           \* environment events still allowed in this run
    as,               \* history: the auto-save calls and timer firings
    notified,         \* the onNotesChange calls the step just taken made
    loading,          \* Auth.loading
    authPc,           \* Auth.initializeAuth: "getUser", "finally", "done"
    attempts,         \* the attempts of TakenoteApp.waitForAuth
    appPc,            \* TakenoteApp.initializeApp: "waitForAuth", "initialized"
    currentNoteId,    \* TakenoteApp.currentNoteId
    reading,          \* the files a FileReader is reading
    editor,           \* the Editor: its element's innerHTML and its fields
    deleted,          \* history: the ids deleteNote has removed
    ev                \* history: the step just taken and its outcome

vars == <<user, handler, notes, activeNoteId, useDatabase, ls, db, tasks,
          timers, autoSaveTimeout, nextTimer, nextId, clock, events, as,
          notified, loading, authPc, attempts, appPc, currentNoteId, reading,
          editor, deleted, ev>>

\* the state of Auth's and of the application's start-up, and of the
\* application's editor
appVars == <<loading, authPc, attempts, appPc, currentNoteId, reading,
            editor>>

\* ------------------------------------------------------ notes and the list
Note(id, title, content, at) ==
    [id |-> id, title |-> title, content |-> content, updatedAt |-> at]

\* notes.findIndex(note => note.id === id): 0 stands for -1
findIndex(ns, id) ==
    IF \E i \in 1..Len(ns) : ns[i].id = id
    THEN CHOOSE i \in 1..Len(ns) :
             ns[i].id = id /\ \A j \in 1..(i - 1) : ns[j].id # id
    ELSE 0

getNoteById(ns, id) == findIndex(ns, id) # 0

\* notes.splice(i, 1)
splice(ns, i) == [j \in 1..(Len(ns) - 1) |-> IF j < i THEN ns[j] ELSE ns[j + 1]]

\* the editor's empty paragraph
EmptyParagraph == "<p><br></p>"

\* updateNoteTitle: the title derived from the content.  Contents are short
\* single-line texts without markup, which extractFirstLineAsTitle returns
\* as they are; the empty content and the empty paragraph, which has no
\* text, give 'Untitled Note'.
TitleOf(content) ==
    IF content \in {"", EmptyParagraph} THEN UntitledTitle ELSE content

\* The ids an operation is called with: those of the notes in the list, and
\* one id that was generated before and is not in the list (a stale id).
Targets ==
    LET inList == {notes[i].id : i \in 1..Len(notes)}
        stale == (1..(nextId - 1)) \ inList
    IN  inList \cup (IF stale = {} THEN {}
                     ELSE {CHOOSE x \in stale : \A y \in stale : x <= y})

\* -------------------------------------------------------------- the editor
\* Editor (Editor.js).  A text is a string in the specifications of the
\* store and a sequence of characters in those of the text functions; tx
\* names the representation: its empty text and its '<p><br></p>'.
Strings == [empty |-> "", para |-> EmptyParagraph]

Chars ==
    [empty |-> <<>>,
     para |-> <<"<", "p", ">", "<", "b", "r", ">", "<", "/", "p", ">">>]

maxUndoLevels == 50     \* this.maxUndoLevels = 50

\* The element before an Editor is constructed on it (its innerHTML is
\* empty) and the fields as the constructor sets them; saveStateTimeout
\* tells whether the 500 ms timer of handleInput is pending.
NewEditor(tx) ==
    [content |-> tx.empty, undoStack |-> <<>>, redoStack |-> <<>>,
     lastSavedState |-> tx.empty, saveStateTimeout |-> FALSE]

\* saveState that drops the newest entry when the limit is exceeded
saveState_DropNewest(ed) ==
    IF ed.content = ed.lastSavedState THEN ed
    ELSE LET pushed == Append(ed.undoStack, ed.lastSavedState)
         IN  [ed EXCEPT !.undoStack = IF Len(pushed) > maxUndoLevels
                                      THEN ed.undoStack ELSE pushed,
                        !.redoStack = <<>>,
                        !.lastSavedState = ed.content]

\* saveState(): push, shift() beyond the limit, clear the redo stack
saveState(ed) ==
    IF ed.content = ed.lastSavedState THEN ed
    ELSE LET pushed == Append(ed.undoStack, ed.lastSavedState)
         IN  [ed EXCEPT !.undoStack = IF Len(pushed) > maxUndoLevels
                                      THEN Tail(pushed) ELSE pushed,
                        !.redoStack = <<>>,
                        !.lastSavedState = ed.content]

\* setContent(html): innerHTML = html || '<p><br></p>', then saveState()
setContent(ed, html, tx) ==
    saveState([ed EXCEPT !.content = IF html = tx.empty THEN tx.para
                                     ELSE html])

\* undo(), without the callbacks
undo(ed, tx) ==
    IF Len(ed.undoStack) > 0
    THEN LET previousState == ed.undoStack[Len(ed.undoStack)]
             popped == [ed EXCEPT
                 !.undoStack = SubSeq(ed.undoStack, 1, Len(ed.undoStack) - 1),
                 !.redoStack = Append(ed.redoStack, ed.content)]
         IN  [setContent(popped, previousState, tx) EXCEPT
                 !.lastSavedState = previousState]
    ELSE ed

\* redo(), without the callbacks
redo(ed, tx) ==
    IF Len(ed.redoStack) > 0
    THEN LET nextState == ed.redoStack[Len(ed.redoStack)]
             popped == [ed EXCEPT
                 !.redoStack = SubSeq(ed.redoStack, 1, Len(ed.redoStack) - 1),
                 !.undoStack = Append(ed.undoStack, ed.content)]
         IN  [setContent(popped, nextState, tx) EXCEPT
                 !.lastSavedState = nextState]
    ELSE ed

\* ------------------------------------------- the synchronous store state
\* The fields a synchronous NoteManager method reads and writes.  re records
\* that this.notes was assigned a new array (an iteration in progress over
\* the old array keeps the old array).
Cur == [notes |-> notes, active |-> activeNoteId, ls |-> ls,
        nextId |-> nextId, clock |-> clock, re |-> FALSE, fired |-> 0]

Commit(S) ==
    /\ notified' = S.fired
    /\ notes' = S.notes
    /\ activeNoteId' = S.active
    /\ ls' = S.ls
    /\ nextId' = S.nextId
    /\ clock' = S.clock

saveNotesToStorage(S) ==
    [S EXCEPT !.ls = [state |-> "ok", notes |-> S.notes, active |-> S.active]]

\* a Note Store that never reaches the statement below
notify_Never(S) == S

\* if (this.onNotesChange) { this.onNotesChange(); }: the statement is
\* reached once more; the callback takes no argument and is the subscriber's.
notify(S) == [S EXCEPT !.fired = S.fired + 1]

createNoteInStorage(S, title, content) ==
    LET note == Note(S.nextId, title, content, S.clock)
    IN  notify(saveNotesToStorage(
                   [S EXCEPT !.notes = <<note>> \o S.notes,
                             !.active = note.id,
                             !.nextId = S.nextId + 1,
                             !.clock = S.clock + 1]))

updateNoteInStorage(S, id, title, content) ==
    LET i == findIndex(S.notes, id)
    IN  IF i = 0 THEN S
        ELSE notify(saveNotesToStorage(
                 [S EXCEPT !.notes[i] = Note(id, title, content, S.clock),
                           !.clock = S.clock + 1]))

\* loadNotesFromStorage that never reads the saved list
loadNotesFromStorage_KeepMemory(S) ==
    LET act == IF S.ls.active # NoId /\ getNoteById(S.notes, S.ls.active)
               THEN S.ls.active
               ELSE IF Len(S.notes) > 0 THEN S.notes[1].id ELSE S.active
        S1 == [S EXCEPT !.active = act]
    IN  IF Len(S.notes) = 0
        THEN notify(createNoteInStorage(S1, WelcomeTitle, WelcomeLocal))
        ELSE notify(S1)

\* loadNotesFromStorage that creates no default note for an empty list
loadNotesFromStorage_NoWelcome(S) ==
    IF S.ls.state = "malformed"
    THEN createNoteInStorage(S, WelcomeTitle, WelcomeError)
    ELSE LET ns == IF S.ls.state = "ok" THEN S.ls.notes ELSE S.notes
             act == IF S.ls.active # NoId /\ getNoteById(ns, S.ls.active)
                    THEN S.ls.active
                    ELSE IF Len(ns) > 0 THEN ns[1].id ELSE S.active
         IN  notify([S EXCEPT !.notes = ns, !.active = act,
                              !.re = (S.ls.state = "ok")])

loadNotesFromStorage(S) ==
    IF S.ls.state = "malformed"
    THEN createNoteInStorage(S, WelcomeTitle, WelcomeError)
    ELSE LET ns == IF S.ls.state = "ok" THEN S.ls.notes ELSE S.notes
             act == IF S.ls.active # NoId /\ getNoteById(ns, S.ls.active)
                    THEN S.ls.active
                    ELSE IF Len(ns) > 0 THEN ns[1].id ELSE S.active
             S1 == [S EXCEPT !.notes = ns, !.active = act,
                             !.re = (S.ls.state = "ok")]
         IN  IF Len(ns) = 0
             THEN notify(createNoteInStorage(S1, WelcomeTitle, WelcomeLocal))
             ELSE notify(S1)

setActiveNote(S, id) ==
    IF getNoteById(S.notes, id) THEN [S EXCEPT !.active = id] ELSE S

\* ------------------------------------------------------- the remote table
Row(id, u, title, content, at) ==
    [id |-> id, user_id |-> u, title |-> title, content |-> content,
     updated_at |-> at]

\* the conversion of a row to the local format (loadNotesFromDatabase,
\* createNoteInDatabase, updateNoteInDatabase)
NoteOfRow(r) == Note(r.id, r.title, r.content, r.updated_at)

\* .eq('user_id', user.id)
RowsOf(u) == {r \in db : r.user_id = u}

\* the match on the id alone
Matching_AnyUser(id, u) == {r \in db : r.id = id}

\* .eq('id', id).eq('user_id', user.id)
Matching(id, u) == {r \in db : r.id = id /\ r.user_id = u}

\* the rows oldest-updated first
RECURSIVE OrderDesc_Ascending(_)
OrderDesc_Ascending(R) ==
    IF R = {} THEN <<>>
    ELSE LET m == CHOOSE r \in R : \A q \in R : r.updated_at <= q.updated_at
         IN  <<m>> \o OrderDesc_Ascending(R \ {m})

\* .order('updated_at', { ascending: false })
RECURSIVE OrderDesc(_)
OrderDesc(R) ==
    IF R = {} THEN <<>>
    ELSE LET m == CHOOSE r \in R : \A q \in R : q.updated_at <= r.updated_at
         IN  <<m>> \o OrderDesc(R \ {m})

\* .limit(1)
Limit1(R) == IF R = {} THEN <<>> ELSE <<CHOOSE r \in R : TRUE>>

\* ------------------------------------------------------------ async tasks
\* One record per async operation suspended at a remote call.
\*   kind   "huc" (handleUserChange), "create", "update", "delete"
\*   pc     the await it is suspended at
\*   st     "sent": request in flight; "ok", "err": response ready
\*   user   const user = this.auth.getCurrentUser()
\*   id, title, content, at   the request's arguments
\*   data   the rows of the response
\*   idx, live, arr   the for...of iterator of migrateToDatabase: elements
\*          consumed, and the array it walks (this.notes while live, else
\*          the array this.notes held when it was replaced)
\*   src    the timer the update was started by (0: none)
\*   from, who, pre, hadRows, ins, errs, ev0   history of a
\*          handleUserChange: the user before it and the user it is for, the
\*          list and whether that user owned rows when it started,
\*          the migration inserts it has issued, the rejections it has seen,
\*          and the events left when it started with nothing else pending
\*          (-1: something else was pending)
\*   had, after, sup   history of an update: whether the list held the id
\*          when updateNote was called, whether an update of the same note
\*          was in flight then, and the content of the update of the same
\*          note dispatched after this one ("": none)
NewTask(kind, pc, u) ==
    [kind |-> kind, pc |-> pc, st |-> "sent", user |-> u, id |-> NoId,
     title |-> "", content |-> "", at |-> 0, data |-> <<>>, idx |-> 0,
     live |-> TRUE, arr |-> <<>>, src |-> 0, from |-> NoUser, pre |-> <<>>,
     who |-> NoUser, hadRows |-> FALSE, ins |-> 0, errs |-> 0, ev0 |-> -1,
     had |-> FALSE, after |-> FALSE, sup |-> ""]

\* the task once it has read its response
Seen(t) == [t EXCEPT !.errs = t.errs + (IF t.st = "err" THEN 1 ELSE 0)]

\* the name of a step of handleUserChange: "hucDone" when it is its last
HucStep(ts) == IF Len(ts) < Len(tasks) THEN "hucDone" ELSE "hucStep"

Drop(ts, i) == [j \in 1..(Len(ts) - 1) |-> IF j < i THEN ts[j] ELSE ts[j + 1]]

\* this.notes = <new array>: a migration loop in progress keeps the old one
Detach(ts, old) ==
    [j \in 1..Len(ts) |->
        IF ts[j].pc = "migInsert" /\ ts[j].live
        THEN [ts[j] EXCEPT !.live = FALSE, !.arr = old]
        ELSE ts[j]]

AfterSync(ts, S) == IF S.re THEN Detach(ts, notes) ELSE ts

\* The step just taken: the operation, the note id it was called with, its
\* outcome, the task that resumed (0: none), and a detail k: for a
\* deleteNote that removed the active note the position the note had in the
\* list, for a resumed update the timer that started it, for a sign-out 1
\* when the reload changed the list (else 0).
ET(op, id, out, i, k) == [op |-> op, id |-> id, out |-> out, i |-> i, k |-> k]

E(op, id, out) == ET(op, id, out, 0, 0)

\* ------------------------------------------------------------ the backend
\* The backend executes the request of task i.
Server(i) ==
    /\ i \in 1..Len(tasks)
    /\ tasks[i].st = "sent"
    /\ LET t == tasks[i]
           isInsert == t.pc \in {"migInsert", "seed", "insert"}
           row == Row(nextId, t.user, t.title, t.content, clock)
           hit == Matching(t.id, t.user)
           new == Row(t.id, t.user, t.title, t.content, t.at)
       IN  /\ db' = CASE isInsert -> db \cup {row}
                      [] t.pc = "update" /\ hit # {} -> (db \ hit) \cup {new}
                      [] t.pc = "delete" -> db \ hit
                      [] OTHER -> db
           /\ nextId' = IF isInsert THEN nextId + 1 ELSE nextId
           /\ clock' = IF isInsert THEN clock + 1 ELSE clock
           /\ tasks' = [tasks EXCEPT ![i] =
                 CASE isInsert -> [t EXCEPT !.st = "ok", !.data = <<row>>]
                   [] t.pc = "update" ->
                        IF hit # {}
                        THEN [t EXCEPT !.st = "ok", !.data = <<new>>]
                        ELSE [t EXCEPT !.st = "err"]      \* .single(): no row
                   [] t.pc = "delete" -> [t EXCEPT !.st = "ok"]
                   [] t.pc = "migCheck" ->
                        [t EXCEPT !.st = "ok", !.data = Limit1(RowsOf(t.user))]
                   [] OTHER ->                             \* "load"
                        [t EXCEPT !.st = "ok",
                                  !.data = OrderDesc(RowsOf(t.user))]]
           /\ ev' = ET("server", NoId, "", i, 0)
    /\ notified' = 0
    /\ UNCHANGED <<user, handler, notes, activeNoteId, useDatabase, ls,
                   timers, autoSaveTimeout, nextTimer, events, as>>
    /\ UNCHANGED appVars
    /\ UNCHANGED deleted

\* The request of task i is rejected (network or backend error): no effect.
ServerFail(i) ==
    /\ i \in 1..Len(tasks)
    /\ tasks[i].st = "sent"
    /\ events > 0
    /\ events' = events - 1
    /\ tasks' = [tasks EXCEPT ![i].st = "err"]
    /\ ev' = ET("serverFail", NoId, "", i, 0)
    /\ notified' = 0
    /\ UNCHANGED <<user, handler, notes, activeNoteId, useDatabase, ls, db,
                   timers, autoSaveTimeout, nextTimer, nextId, clock, as>>
    /\ UNCHANGED appVars
    /\ UNCHANGED deleted

\* ------------------------------------------------- session transitions
\* loadNotesFromDatabase up to its await, called by task i (record t) of
\* handleUserChange: without a user it loads from the Local Store and the
\* transition is over; otherwise it sends the list request.
StartLoad(i, t) ==
    IF user = NoUser
    THEN LET S2 == loadNotesFromStorage(Cur)
         IN  /\ Commit(S2)
             /\ tasks' = AfterSync(Drop(tasks, i), S2)
    ELSE /\ tasks' = [tasks EXCEPT ![i] =
                 [t EXCEPT !.pc = "load", !.st = "sent", !.user = user,
                           !.data = <<>>]]
         /\ notified' = 0
         /\ UNCHANGED <<notes, activeNoteId, ls, nextId, clock>>

\* The for...of loop of migrateToDatabase at its next element: sends the
\* insert of that note, or leaves the loop and goes on to the reload.
MigNext(i, t) ==
    LET arr == IF t.live THEN notes ELSE t.arr
    IN  IF t.idx < Len(arr)
        THEN /\ tasks' = [tasks EXCEPT ![i] =
                     [t EXCEPT !.pc = "migInsert", !.st = "sent",
                               !.idx = t.idx + 1,
                               !.title = arr[t.idx + 1].title,
                               !.content = arr[t.idx + 1].content,
                               !.ins = t.ins + 1, !.data = <<>>]]
             /\ notified' = 0
             /\ UNCHANGED <<notes, activeNoteId, ls, nextId, clock>>
        ELSE StartLoad(i, t)

\* Auth.setUser(u) while onUserChange is bound to the Note Store, u a user:
\* handleUserChange(u) up to its first await.
setUser_SignedIn(u) ==
    /\ events > 0
    /\ handler = "nm"
    /\ u \in Accounts
    /\ user \in {NoUser, u}
    /\ Len(tasks) < MaxTasks
    /\ events' = events - 1
    /\ user' = u
    /\ useDatabase' = TRUE
    /\ LET t == [NewTask("huc", "migCheck", u) EXCEPT
                    !.from = user, !.who = u, !.pre = notes,
                    !.hadRows = (RowsOf(u) # {}),
                    !.ev0 = IF tasks = <<>> /\ timers = {}
                            THEN events - 1 ELSE -1]
       IN  tasks' = Append(tasks,
                IF Len(notes) = 0
                THEN [t EXCEPT !.pc = "load"]      \* migrateToDatabase returns
                ELSE t)
    /\ ev' = E("signIn", NoId, u)
    /\ notified' = 0
    /\ UNCHANGED <<handler, notes, activeNoteId, ls, db, timers,
                   autoSaveTimeout, nextTimer, nextId, clock, as>>

\* Auth.setUser(u), u a user, outside the start-up
SignIn(u) ==
    /\ setUser_SignedIn(u)
    /\ UNCHANGED appVars
    /\ UNCHANGED deleted

\* Auth.setUser(null) while onUserChange is bound to the Note Store:
\* handleUserChange(null), which is synchronous.
setUser_SignedOut ==
    /\ events > 0
    /\ handler = "nm"
    /\ events' = events - 1
    /\ user' = NoUser
    /\ useDatabase' = FALSE
    /\ LET S2 == loadNotesFromStorage(Cur)
       IN  /\ Commit(S2)
           /\ tasks' = AfterSync(tasks, S2)
    /\ ev' = ET("signOut", NoId, user, 0, IF notes' # notes THEN 1 ELSE 0)
    /\ UNCHANGED <<handler, db, timers, autoSaveTimeout, nextTimer, as>>

\* Auth.setUser(null) outside the start-up
SignOut ==
    /\ setUser_SignedOut
    /\ UNCHANGED appVars
    /\ UNCHANGED deleted

\* Auth.setUser(u) once TakenoteApp.bindEvents has rebound onUserChange to
\* TakenoteApp.handleUserChange, which only refreshes the page.
setUser_App(u) ==
    /\ events > 0
    /\ handler = "app"
    /\ u \in Users \cup {NoUser}
    /\ user = NoUser \/ u \in {NoUser, user}
    /\ events' = events - 1
    /\ user' = u
    /\ ev' = E("appUserChange", NoId, u)
    /\ notified' = 0
    /\ UNCHANGED <<handler, notes, activeNoteId, useDatabase, ls, db, tasks,
                   timers, autoSaveTimeout, nextTimer, nextId, clock,
                   as>>

\* Auth.setUser(u) outside the start-up, once bindEvents has run: for a
\* user, TakenoteApp.handleUserChange calls loadActiveNote, which shows the
\* active note in the editor when there are both.
AppUserChange(u) ==
    /\ setUser_App(u)
    /\ IF u # NoUser /\ appPc = "initialized" /\ getNoteById(notes, activeNoteId)
       THEN /\ currentNoteId' = activeNoteId
            /\ editor' = setContent(
                   editor, notes[findIndex(notes, activeNoteId)].content,
                   Strings)
       ELSE UNCHANGED <<currentNoteId, editor>>
    /\ UNCHANGED <<loading, authPc, attempts, appPc, reading, deleted>>

\* TakenoteApp.bindEvents: this.auth.onUserChange = ... replaces the Note
\* Store's subscription.
BindEvents ==
    /\ handler = "nm"
    /\ handler' = "app"
    /\ ev' = E("bindEvents", NoId, "")
    /\ notified' = 0
    /\ UNCHANGED <<user, notes, activeNoteId, useDatabase, ls, db, tasks,
                   timers, autoSaveTimeout, nextTimer, nextId, clock, events, as>>
    /\ UNCHANGED appVars
    /\ UNCHANGED deleted

\* migrateToDatabase resumes with the answer to "does the user own a row".
MigCheckDone(i) ==
    /\ i \in 1..Len(tasks)
    /\ tasks[i].pc = "migCheck"
    /\ tasks[i].st # "sent"
    /\ LET t == tasks[i]
       IN  IF t.st = "ok" /\ Len(t.data) > 0
           THEN StartLoad(i, t)                     \* skip the migration
           ELSE MigNext(i, [Seen(t) EXCEPT !.idx = 0, !.live = TRUE])
    /\ ev' = ET(HucStep(tasks'), NoId, "migCheck", i, 0)
    /\ UNCHANGED <<user, handler, useDatabase, db, timers, autoSaveTimeout,
                   nextTimer, events, as>>
    /\ UNCHANGED appVars
    /\ UNCHANGED deleted

\* migrateToDatabase resumes after one insert; its result is not looked at.
MigInsertDone(i) ==
    /\ i \in 1..Len(tasks)
    /\ tasks[i].pc = "migInsert"
    /\ tasks[i].st # "sent"
    /\ MigNext(i, Seen(tasks[i]))
    /\ ev' = ET(HucStep(tasks'), NoId, "migInsert", i, 0)
    /\ UNCHANGED <<user, handler, useDatabase, db, timers, autoSaveTimeout,
                   nextTimer, events, as>>
    /\ UNCHANGED appVars
    /\ UNCHANGED deleted

\* loadNotesFromDatabase resumes with the rows, or with the rejection.
LoadDone(i) ==
    /\ i \in 1..Len(tasks)
    /\ tasks[i].pc = "load"
    /\ tasks[i].st # "sent"
    /\ LET t == tasks[i]
           ns == [j \in 1..Len(t.data) |-> NoteOfRow(t.data[j])]
           S1 == [Cur EXCEPT !.notes = ns, !.re = TRUE,
                             !.active = IF Len(ns) > 0 THEN ns[1].id ELSE NoId]
       IN  IF t.st = "err"
           THEN LET S2 == loadNotesFromStorage(Cur)
                IN  /\ Commit(S2)
                    /\ tasks' = AfterSync(Drop(tasks, i), S2)
                    /\ ev' = ET("hucDone", NoId, "fallback", i, 0)
           ELSE IF Len(ns) > 0
           THEN /\ Commit(notify(saveNotesToStorage(S1)))
                /\ tasks' = AfterSync(Drop(tasks, i), S1)
                /\ ev' = ET("hucDone", NoId, "loaded", i, 0)
           ELSE IF useDatabase /\ user # NoUser       \* createNote(welcome)
           THEN /\ Commit(S1)
                /\ tasks' = AfterSync(
                       [tasks EXCEPT ![i] =
                           [t EXCEPT !.pc = "seed", !.st = "sent",
                                     !.user = user, !.title = WelcomeTitle,
                                     !.content = WelcomeRemote,
                                     !.data = <<>>]], S1)
                /\ ev' = ET("hucStep", NoId, "seed", i, 0)
           ELSE /\ Commit(notify(saveNotesToStorage(
                       createNoteInStorage(S1, WelcomeTitle, WelcomeRemote))))
                /\ tasks' = AfterSync(Drop(tasks, i), S1)
                /\ ev' = ET("hucDone", NoId, "seededLocal", i, 0)
    /\ UNCHANGED <<user, handler, useDatabase, db, timers, autoSaveTimeout,
                   nextTimer, events, as>>
    /\ UNCHANGED appVars
    /\ UNCHANGED deleted

\* createNoteInDatabase of the welcome note resumes, then loadNotesFromDatabase
\* finishes.
SeedDone(i) ==
    /\ i \in 1..Len(tasks)
    /\ tasks[i].pc = "seed"
    /\ tasks[i].st # "sent"
    /\ LET t == tasks[i]
           note == NoteOfRow(t.data[1])
           S1 == IF t.st = "ok"
                 THEN notify(saveNotesToStorage(
                          [Cur EXCEPT !.notes = <<note>> \o notes,
                                      !.active = note.id]))
                 ELSE createNoteInStorage(Cur, t.title, t.content)
       IN  /\ Commit(notify(saveNotesToStorage(S1)))
           /\ tasks' = Drop(tasks, i)
           /\ ev' = ET("hucDone", NoId,
                       IF t.st = "ok" THEN "seeded" ELSE "seededLocal", i, 0)
    /\ UNCHANGED <<user, handler, useDatabase, db, timers, autoSaveTimeout,
                   nextTimer, events, as>>
    /\ UNCHANGED appVars
    /\ UNCHANGED deleted

\* ------------------------------------------------------- note operations
Remote == useDatabase /\ user # NoUser

\* createNote() with its default arguments, up to the await of the insert
\* (remote mode) or to its end (local mode).
CreateNote ==
    /\ events > 0
    /\ events' = events - 1
    /\ IF Remote
       THEN /\ Len(tasks) < MaxTasks
            /\ tasks' = Append(tasks,
                   [NewTask("create", "insert", user) EXCEPT
                       !.title = UntitledTitle, !.content = ""])
            /\ ev' = E("createNote", NoId, "sent")
            /\ notified' = 0
            /\ UNCHANGED <<notes, activeNoteId, ls, nextId, clock>>
       ELSE /\ Commit(createNoteInStorage(Cur, UntitledTitle, ""))
            /\ ev' = E("createNote", nextId, "local")
            /\ UNCHANGED tasks
    /\ UNCHANGED <<user, handler, useDatabase, db, timers, autoSaveTimeout,
                   nextTimer, as>>
    /\ UNCHANGED appVars
    /\ UNCHANGED deleted

\* createNoteInDatabase that sends the insert again when it was rejected
CreateDone_Retry(i) ==
    /\ i \in 1..Len(tasks)
    /\ tasks[i].pc = "insert"
    /\ tasks[i].st # "sent"
    /\ LET t == tasks[i]
           note == NoteOfRow(t.data[1])
       IN  IF t.st = "ok"
           THEN /\ Commit(notify(saveNotesToStorage(
                       [Cur EXCEPT !.notes = <<note>> \o notes,
                                   !.active = note.id])))
                /\ ev' = ET("createDone", note.id, "remote", i, 0)
                /\ tasks' = Drop(tasks, i)
           ELSE /\ ev' = ET("createDone", NoId, "fallback", i, 0)
                /\ tasks' = [tasks EXCEPT ![i].st = "sent"]
                /\ notified' = 0
                /\ UNCHANGED <<notes, activeNoteId, ls, nextId, clock>>
    /\ UNCHANGED <<user, handler, useDatabase, db, timers, autoSaveTimeout,
                   nextTimer, events, as>>
    /\ UNCHANGED appVars
    /\ UNCHANGED deleted

\* createNoteInDatabase resumes with the inserted row, or falls back to
\* createNoteInStorage.
CreateDone(i) ==
    /\ i \in 1..Len(tasks)
    /\ tasks[i].pc = "insert"
    /\ tasks[i].st # "sent"
    /\ LET t == tasks[i]
           note == NoteOfRow(t.data[1])
       IN  IF t.st = "ok"
           THEN /\ Commit(notify(saveNotesToStorage(
                       [Cur EXCEPT !.notes = <<note>> \o notes,
                                   !.active = note.id])))
                /\ ev' = ET("createDone", note.id, "remote", i, 0)
           ELSE /\ Commit(createNoteInStorage(Cur, t.title, t.content))
                /\ ev' = ET("createDone", nextId, "fallback", i, 0)
    /\ tasks' = Drop(tasks, i)
    /\ UNCHANGED <<user, handler, useDatabase, db, timers, autoSaveTimeout,
                   nextTimer, events, as>>
    /\ UNCHANGED appVars
    /\ UNCHANGED deleted

\* history: the updates of note id in flight have an update after them
Superseded(ts, id, content) ==
    [j \in 1..Len(ts) |->
        IF ts[j].pc = "update" /\ ts[j].id = id
        THEN [ts[j] EXCEPT !.sup = content]
        ELSE ts[j]]

\* updateNote(id, {title, content}) up to the await of the update (remote
\* mode) or to its end (local mode); src is the timer that started it.
updateNote(id, title, content, src) ==
    IF Remote
    THEN /\ Len(tasks) < MaxTasks
         /\ tasks' = Append(Superseded(tasks, id, content),
                [NewTask("update", "update", user) EXCEPT
                    !.id = id, !.title = title, !.content = content,
                    !.at = clock, !.src = src,
                    !.had = getNoteById(notes, id),
                    !.after = \E j \in 1..Len(tasks) :
                                 tasks[j].pc = "update" /\ tasks[j].id = id])
         /\ clock' = clock + 1
         /\ ev' = E(IF src = 0 THEN "updateNote" ELSE "autoSave", id, "sent")
         /\ notified' = 0
         /\ UNCHANGED <<notes, activeNoteId, ls, nextId>>
    ELSE /\ Commit(updateNoteInStorage(Cur, id, title, content))
         /\ ev' = E(IF src = 0 THEN "updateNote" ELSE "autoSave", id,
                    IF getNoteById(notes, id) THEN "updated" ELSE "null")
         /\ UNCHANGED tasks

\* updateNoteTitle(id, content), as the application calls it when it saves
\* the current note.
UpdateNoteTitle(id, content) ==
    /\ events > 0
    /\ id \in Targets
    /\ content \in Contents
    /\ events' = events - 1
    /\ updateNote(id, TitleOf(content), content, 0)
    /\ UNCHANGED <<user, handler, useDatabase, db, timers, autoSaveTimeout,
                   nextTimer, as>>
    /\ UNCHANGED appVars
    /\ UNCHANGED deleted

\* updateNoteInDatabase that gives up when the update was rejected
UpdateDone_NoFallback(i) ==
    /\ i \in 1..Len(tasks)
    /\ tasks[i].pc = "update"
    /\ tasks[i].st # "sent"
    /\ LET t == tasks[i]
           k == findIndex(notes, t.id)
       IN  IF t.st = "ok" /\ k # 0
           THEN /\ Commit(notify(saveNotesToStorage(
                       [Cur EXCEPT !.notes[k] = NoteOfRow(t.data[1])])))
                /\ ev' = ET("updateDone", t.id, "updated", i, t.src)
           ELSE /\ ev' = ET("updateDone", t.id, "null", i, t.src)
                /\ notified' = 0
                /\ UNCHANGED <<notes, activeNoteId, ls, nextId, clock>>
    /\ tasks' = Drop(tasks, i)
    /\ UNCHANGED <<user, handler, useDatabase, db, timers, autoSaveTimeout,
                   nextTimer, events, as>>
    /\ UNCHANGED appVars
    /\ UNCHANGED deleted

\* updateNoteInDatabase resumes with the updated row, or falls back to
\* updateNoteInStorage.
UpdateDone(i) ==
    /\ i \in 1..Len(tasks)
    /\ tasks[i].pc = "update"
    /\ tasks[i].st # "sent"
    /\ LET t == tasks[i]
           k == findIndex(notes, t.id)
       IN  IF t.st = "ok"
           THEN IF k # 0
                THEN /\ Commit(notify(saveNotesToStorage(
                            [Cur EXCEPT !.notes[k] = NoteOfRow(t.data[1])])))
                     /\ ev' = ET("updateDone", t.id, "updated", i, t.src)
                ELSE /\ ev' = ET("updateDone", t.id, "null", i, t.src)
                     /\ notified' = 0
                     /\ UNCHANGED <<notes, activeNoteId, ls, nextId, clock>>
           ELSE /\ Commit(updateNoteInStorage(Cur, t.id, t.title, t.content))
                /\ ev' = ET("updateDone", t.id,
                            IF k # 0 THEN "fallback" ELSE "fallbackNull", i,
                            t.src)
    /\ tasks' = Drop(tasks, i)
    /\ UNCHANGED <<user, handler, useDatabase, db, timers, autoSaveTimeout,
                   nextTimer, events, as>>
    /\ UNCHANGED appVars
    /\ UNCHANGED deleted

\* deleteNote without its session check: the request goes out regardless.
DeleteNote_NoSessionCheck(id) ==
    /\ events > 0
    /\ id \in Targets
    /\ events' = events - 1
    /\ Len(tasks) < MaxTasks
    /\ tasks' = Append(tasks,
           [NewTask("delete", "delete", user) EXCEPT !.id = id])
    /\ ev' = E("deleteNote", id, "sent")
    /\ notified' = 0
    /\ UNCHANGED <<user, handler, notes, activeNoteId, useDatabase, ls, db,
                   timers, autoSaveTimeout, nextTimer, nextId, clock, as>>
    /\ UNCHANGED appVars
    /\ UNCHANGED deleted

\* deleteNote(id) up to the await of the delete, or to the authorization
\* error it throws without a session.
DeleteNote(id) ==
    /\ events > 0
    /\ id \in Targets
    /\ events' = events - 1
    /\ IF user = NoUser
       THEN /\ ev' = E("deleteNote", id, "AuthError")
            /\ UNCHANGED tasks
       ELSE /\ Len(tasks) < MaxTasks
            /\ tasks' = Append(tasks,
                   [NewTask("delete", "delete", user) EXCEPT !.id = id])
            /\ ev' = E("deleteNote", id, "sent")
    /\ notified' = 0
    /\ UNCHANGED <<user, handler, notes, activeNoteId, useDatabase, ls, db,
                   timers, autoSaveTimeout, nextTimer, nextId, clock,
                   as>>
    /\ UNCHANGED appVars
    /\ UNCHANGED deleted

\* the new active note chosen as the one that followed the deleted note
activeAfterDelete_Following(rest, k) ==
    IF Len(rest) = 0 THEN NoId
    ELSE IF k <= Len(rest) THEN rest[k].id ELSE rest[1].id

\* deleteNote: the active note once the active note, which was at position
\* k, is removed and rest is what remains
activeAfterDelete(rest, k) == IF Len(rest) > 0 THEN rest[1].id ELSE NoId

\* a rejected delete treated like a successful one (local-only removal)
deleteResult_LocalFallback(st, k) == IF k = 0 THEN "false" ELSE "true"

\* deleteNote: what the call gives once the response is there, k being the
\* position of the note in the list (0: not in the list)
deleteResult(st, k) ==
    IF st = "err" THEN "Failed" ELSE IF k = 0 THEN "false" ELSE "true"

\* deleteNote resumes: removes the note from the list, or throws.
DeleteDone(i) ==
    /\ i \in 1..Len(tasks)
    /\ tasks[i].pc = "delete"
    /\ tasks[i].st # "sent"
    /\ LET t == tasks[i]
           k == findIndex(notes, t.id)
           rest == splice(notes, k)
           res == deleteResult(t.st, k)
       IN  IF res = "true"
           THEN /\ notes' = rest
                /\ deleted' = deleted \cup {t.id}
                /\ notified' = 1
                /\ activeNoteId' = IF activeNoteId = t.id
                                   THEN activeAfterDelete(rest, k)
                                   ELSE activeNoteId
                /\ ev' = ET("deleteDone", t.id, res, i,
                            IF activeNoteId = t.id THEN k ELSE 0)
           ELSE /\ ev' = ET("deleteDone", t.id, res, i, 0)
                /\ notified' = 0
                /\ UNCHANGED <<notes, activeNoteId, deleted>>
    /\ tasks' = Drop(tasks, i)
    /\ UNCHANGED <<user, handler, useDatabase, ls, db, timers,
                   autoSaveTimeout, nextTimer, nextId, clock, events,
                   as>>
    /\ UNCHANGED appVars

\* setActiveNote(id), as TakenoteApp.switchToNote calls it.
SetActiveNote(id) ==
    /\ events > 0
    /\ id \in Targets
    /\ events' = events - 1
    /\ Commit(setActiveNote(Cur, id))
    /\ ev' = E("setActiveNote", id,
               IF getNoteById(notes, id) THEN "set" ELSE "null")
    /\ UNCHANGED <<user, handler, useDatabase, db, tasks, timers,
                   autoSaveTimeout, nextTimer, as>>
    /\ UNCHANGED appVars
    /\ UNCHANGED deleted

\* --------------------------------------------------------------- auto-save
\* autoSaveNote without the clearTimeout of the pending timer
AutoSaveNote_NoClear(id, content) ==
    /\ id \in Targets
    /\ content \in Contents
    /\ IF user = NoUser
       THEN /\ ev' = E("autoSaveNote", id, "ignored")
            /\ UNCHANGED <<timers, autoSaveTimeout, nextTimer, as, events>>
       ELSE /\ events > 0
            /\ events' = events - 1
            /\ timers' = timers \cup {[h |-> nextTimer, id |-> id,
                                        content |-> content]}
            /\ autoSaveTimeout' = nextTimer
            /\ nextTimer' = nextTimer + 1
            /\ as' = [call |-> <<id, content>>,
                      prev |-> IF timers # {} THEN as.call ELSE <<>>,
                      fires |-> 0, wrote |-> <<>>]
            /\ ev' = E("autoSaveNote", id, "scheduled")
    /\ notified' = 0
    /\ UNCHANGED <<user, handler, notes, activeNoteId, useDatabase, ls, db,
                   tasks, nextId, clock>>
    /\ UNCHANGED appVars
    /\ UNCHANGED deleted

\* autoSaveNote without its session check: it schedules the write anyway
AutoSaveNote_NoSessionCheck(id, content) ==
    /\ id \in Targets
    /\ content \in Contents
    /\ events > 0
    /\ events' = events - 1
    /\ timers' = {t \in timers : t.h # autoSaveTimeout}
                    \cup {[h |-> nextTimer, id |-> id, content |-> content]}
    /\ autoSaveTimeout' = nextTimer
    /\ nextTimer' = nextTimer + 1
    /\ as' = [call |-> <<id, content>>,
              prev |-> IF timers # {} THEN as.call ELSE <<>>,
              fires |-> 0, wrote |-> <<>>]
    /\ ev' = E("autoSaveNote", id, "scheduled")
    /\ notified' = 0
    /\ UNCHANGED <<user, handler, notes, activeNoteId, useDatabase, ls, db,
                   tasks, nextId, clock>>
    /\ UNCHANGED appVars
    /\ UNCHANGED deleted

\* autoSaveNote that keeps one timer per note: it clears the pending
\* timer only when that timer is for the same note
AutoSaveNote_PerNote(id, content) ==
    /\ id \in Targets
    /\ content \in Contents
    /\ IF user = NoUser
       THEN /\ ev' = E("autoSaveNote", id, "ignored")
            /\ UNCHANGED <<timers, autoSaveTimeout, nextTimer, as, events>>
       ELSE /\ events > 0
            /\ events' = events - 1
            /\ timers' = {t \in timers : t.id # id}
                           \cup {[h |-> nextTimer, id |-> id,
                                  content |-> content]}
            /\ autoSaveTimeout' = nextTimer
            /\ nextTimer' = nextTimer + 1
            /\ as' = [call |-> <<id, content>>,
                      prev |-> IF timers # {} THEN as.call ELSE <<>>,
                      fires |-> 0, wrote |-> <<>>]
            /\ ev' = E("autoSaveNote", id, "scheduled")
    /\ notified' = 0
    /\ UNCHANGED <<user, handler, notes, activeNoteId, useDatabase, ls, db,
                   tasks, nextId, clock>>
    /\ UNCHANGED appVars
    /\ UNCHANGED deleted

\* autoSaveNote(id, content): without a session nothing (such a call is not
\* counted as an event of the run); otherwise clearTimeout of the timer it
\* set last and setTimeout of a new one.
AutoSaveNote(id, content) ==
    /\ id \in Targets
    /\ content \in Contents
    /\ IF user = NoUser
       THEN /\ ev' = E("autoSaveNote", id, "ignored")
            /\ UNCHANGED <<timers, autoSaveTimeout, nextTimer, as, events>>
       ELSE /\ events > 0
            /\ events' = events - 1
            /\ timers' = {t \in timers : t.h # autoSaveTimeout}
                           \cup {[h |-> nextTimer, id |-> id,
                                  content |-> content]}
            /\ autoSaveTimeout' = nextTimer
            /\ nextTimer' = nextTimer + 1
            /\ as' = [call |-> <<id, content>>,
                      prev |-> IF timers # {} THEN as.call ELSE <<>>,
                      fires |-> 0, wrote |-> <<>>]
            /\ ev' = E("autoSaveNote", id, "scheduled")
    /\ notified' = 0
    /\ UNCHANGED <<user, handler, notes, activeNoteId, useDatabase, ls, db,
                   tasks, nextId, clock>>
    /\ UNCHANGED appVars
    /\ UNCHANGED deleted

\* The timeout callback of autoSaveNote: updateNoteTitle(id, content).
TimerFire ==
    \E t \in timers :
        /\ timers' = timers \ {t}
        /\ as' = [as EXCEPT !.fires = as.fires + 1,
                            !.wrote = <<t.id, t.content>>]
        /\ updateNote(t.id, TitleOf(t.content), t.content, t.h)
        /\ UNCHANGED <<user, handler, useDatabase, db, autoSaveTimeout,
                       nextTimer, events>>
        /\ UNCHANGED appVars
        /\ UNCHANGED deleted

\* ------------------------------------------------------------ specification
\* What the Local Store may hold when the page is opened.
InitialStores == { [state |-> "missing", notes |-> <<>>, active |-> NoId] }

\* What the remote table may hold when the page is opened: a row of another
\* account, and either no row or three rows of the user of this browser.
InitialTables ==
    { {Row(4, "u2", "b", "b", 4)},
      {Row(4, "u2", "b", "b", 4), Row(1, "u1", "a", "a", 1),
       Row(2, "u1", "b", "b", 2), Row(3, "u1", "a", "a", 3)} }

\* The state once Auth and NoteManager are constructed: no user yet, the
\* list loaded from the Local Store, onUserChange bound to the Note Store.
Init ==
    /\ user = NoUser
    /\ handler = "nm"
    /\ useDatabase = FALSE
    /\ db \in InitialTables
    /\ \E ls0 \in InitialStores :
          LET S == loadNotesFromStorage(
                       [notes |-> <<>>, active |-> NoId, ls |-> ls0,
                        nextId |-> 5, clock |-> 5, re |-> FALSE,
                        fired |-> 0])
          IN  /\ notes = S.notes
              /\ activeNoteId = S.active
              /\ ls = S.ls
              /\ nextId = S.nextId
              /\ clock = S.clock
              /\ notified = S.fired
    /\ tasks = <<>>
    /\ timers = {}
    /\ autoSaveTimeout = 0
    /\ nextTimer = 1
    /\ events = MaxEvents
    /\ as = [call |-> <<>>, prev |-> <<>>, fires |-> 0, wrote |-> <<>>]
    /\ ev = E("init", NoId, "")
    /\ loading = TRUE
    /\ authPc = "getUser"
    /\ attempts = 0
    /\ appPc = "waitForAuth"
    /\ currentNoteId = NoId
    /\ reading = {}
    /\ editor = NewEditor(Strings)
    /\ deleted = {}

Next ==
    \/ \E u \in Users : SignIn(u)
    \/ SignOut
    \/ \E u \in Users \cup {NoUser} : AppUserChange(u)
    \/ BindEvents
    \/ CreateNote
    \/ \E id \in Targets, c \in Contents : UpdateNoteTitle(id, c)
    \/ \E id \in Targets : DeleteNote(id)
    \/ \E id \in Targets : SetActiveNote(id)
    \/ \E id \in Targets, c \in Contents : AutoSaveNote(id, c)
    \/ TimerFire
    \/ \E i \in 1..MaxTasks :
          \/ Server(i)
          \/ ServerFail(i)
          \/ MigCheckDone(i)
          \/ MigInsertDone(i)
          \/ LoadDone(i)
          \/ SeedDone(i)
          \/ CreateDone(i)
          \/ UpdateDone(i)
          \/ DeleteDone(i)

Spec == Init /\ [][Next]_vars

\* ------------------------------------- specification: the Local Store
\* The same program in a browser whose localStorage is not only written by
\* the Note Store: the page may be opened on any saved state, and the saved
\* entries may be removed or overwritten from outside (another tab of the
\* origin, the user clearing the site's data) while the page is open.

\* What the Local Store may hold when the page is opened: nothing, an
\* unparsable entry, an empty list, or two notes with the saved active id
\* naming the second or no note of the list (9).
BootStores ==
    LET two == <<Note(6, "b", "b", 6), Note(5, "a", "a", 5)>>
    IN  { [state |-> "missing", notes |-> <<>>, active |-> NoId],
          [state |-> "malformed", notes |-> <<>>, active |-> NoId],
          [state |-> "ok", notes |-> <<>>, active |-> NoId],
          [state |-> "ok", notes |-> two, active |-> 5],
          [state |-> "ok", notes |-> two, active |-> 9] }

\* The state once Auth and NoteManager are constructed, as Init, for a user
\* of this browser who owns no remote row yet; the step record keeps what
\* the Local Store held: its active id, its state and the length of its
\* list.
InitStorage ==
    /\ user = NoUser
    /\ handler = "nm"
    /\ useDatabase = FALSE
    /\ db \in {T \in InitialTables : \A r \in T : r.user_id \notin Users}
    /\ \E ls0 \in BootStores :
          LET S == loadNotesFromStorage(
                       [notes |-> <<>>, active |-> NoId, ls |-> ls0,
                        nextId |-> 7, clock |-> 7, re |-> FALSE,
                        fired |-> 0])
          IN  /\ notes = S.notes
              /\ activeNoteId = S.active
              /\ ls = S.ls
              /\ nextId = S.nextId
              /\ clock = S.clock
              /\ notified = S.fired
              /\ ev = ET("init", ls0.active, ls0.state, 0, Len(ls0.notes))
    /\ tasks = <<>>
    /\ timers = {}
    /\ autoSaveTimeout = 0
    /\ nextTimer = 1
    /\ events = MaxEvents
    /\ as = [call |-> <<>>, prev |-> <<>>, fires |-> 0, wrote |-> <<>>]
    /\ loading = TRUE
    /\ authPc = "getUser"
    /\ attempts = 0
    /\ appPc = "waitForAuth"
    /\ currentNoteId = NoId
    /\ reading = {}
    /\ editor = NewEditor(Strings)
    /\ deleted = {}

\* The saved entries are removed ("missing") or overwritten with text that
\* is not a list of notes ("malformed") from outside the Note Store.
StorageLost(s) ==
    /\ events > 0
    /\ s \in {"missing", "malformed"}
    /\ events' = events - 1
    /\ ls' = [state |-> s, notes |-> <<>>, active |-> NoId]
    /\ ev' = E("storage", NoId, s)
    /\ notified' = 0
    /\ UNCHANGED <<user, handler, notes, activeNoteId, useDatabase, db, tasks,
                   timers, autoSaveTimeout, nextTimer, nextId, clock, as>>
    /\ UNCHANGED appVars
    /\ UNCHANGED deleted

NextStorage ==
    \/ Next
    \/ \E s \in {"missing", "malformed"} : StorageLost(s)

SpecStorage == InitStorage /\ [][NextStorage]_vars

\* -------------------------------- specification: two accounts, one browser
\* The same program when a second account signs in on the same browser after
\* the first has signed out.
NextScope ==
    \/ Next
    \/ SignIn("u2")

SpecScope == Init /\ [][NextScope]_vars

\* ------------------------------------- specification: the text functions
\* The functions of the Note Store that compute on the text of a note
\* (title, statistics, export, import), on an anonymous store.  Here a text
\* is the sequence of its characters, each a one-character string; the
\* store operations are those of the local mode above.

TitleMax == 50      \* firstLine.substring(0, 50), firstLine.length > 50
MaxRun == 51        \* the longest run of one character in an input text

Lower ==
    <<"a", "b", "c", "d", "e", "f", "g", "h", "i", "j", "k", "l", "m",
      "n", "o", "p", "q", "r", "s", "t", "u", "v", "w", "x", "y", "z">>
Upper ==
    <<"A", "B", "C", "D", "E", "F", "G", "H", "I", "J", "K", "L", "M",
      "N", "O", "P", "Q", "R", "S", "T", "U", "V", "W", "X", "Y", "Z">>
Digits == {"0", "1", "2", "3", "4", "5", "6", "7", "8", "9"}

\* /[a-z0-9]/i
IsAlnum(c) == \/ c \in Digits
              \/ \E i \in 1..26 : c = Lower[i] \/ c = Upper[i]

\* String.prototype.toLowerCase, one character
toLowerCase(c) ==
    IF \E i \in 1..26 : c = Upper[i]
    THEN Lower[CHOOSE i \in 1..26 : c = Upper[i]]
    ELSE c

\* \s, of the characters of the inputs
Space == {" ", "\n"}

\* the index of the first character of s that is in C (0: none)
IndexOf(s, C) ==
    IF \E i \in 1..Len(s) : s[i] \in C
    THEN CHOOSE i \in 1..Len(s) :
             s[i] \in C /\ \A j \in 1..(i - 1) : s[j] \notin C
    ELSE 0

From(s, i) == SubSeq(s, i, Len(s))

StartsWith(s, p) == Len(s) >= Len(p) /\ SubSeq(s, 1, Len(p)) = p

RECURSIVE trimStart(_)
trimStart(s) ==
    IF s # <<>> /\ Head(s) \in Space THEN trimStart(Tail(s)) ELSE s

RECURSIVE trimEnd(_)
trimEnd(s) ==
    IF s # <<>> /\ s[Len(s)] \in Space
    THEN trimEnd(SubSeq(s, 1, Len(s) - 1))
    ELSE s

\* String.prototype.trim
trim(s) == trimEnd(trimStart(s))

RECURSIVE skip(_, _)
skip(s, C) == IF s # <<>> /\ Head(s) \in C THEN skip(Tail(s), C) ELSE s

\* s.split('\n')
RECURSIVE splitLines(_)
splitLines(s) ==
    LET i == IndexOf(s, {"\n"})
    IN  IF i = 0 THEN <<s>>
        ELSE <<SubSeq(s, 1, i - 1)>> \o splitLines(From(s, i + 1))

\* s.split(/[C]+/): the pieces between the maximal runs of characters of C
RECURSIVE splitRuns(_, _)
splitRuns(s, C) ==
    LET i == IndexOf(s, C)
    IN  IF i = 0 THEN <<s>>
        ELSE <<SubSeq(s, 1, i - 1)>> \o splitRuns(skip(From(s, i + 1), C), C)

RECURSIVE join(_)
join(ps) == IF ps = <<>> THEN <<>> ELSE Head(ps) \o join(Tail(ps))

\* content.replace(/<[^>]*>/g, ''): every '<' up to the next '>' goes.
\* The text before the first '<' stays; a '<' with no '>' after it opens
\* no tag, and then neither does any later one.
RECURSIVE stripTags(_)
stripTags(s) ==
    LET i == IndexOf(s, {"<"})
        g == IndexOf(From(s, i), {">"})
    IN  IF i = 0 \/ g = 0 THEN s
        ELSE SubSeq(s, 1, i - 1) \o stripTags(From(s, i + g))

Amp == <<"&", "a", "m", "p", ";">>
Lt == <<"&", "l", "t", ";">>
Gt == <<"&", "g", "t", ";">>

\* the character references of a text node, each replaced by its
\* character; the text before the first '&' has none
RECURSIVE decode(_)
decode(s) ==
    LET i == IndexOf(s, {"&"})
        t == From(s, i)
    IN  IF i = 0 THEN s
        ELSE SubSeq(s, 1, i - 1) \o
             (IF StartsWith(t, Amp) THEN <<"&">> \o decode(From(t, Len(Amp) + 1))
              ELSE IF StartsWith(t, Lt) THEN <<"<">> \o decode(From(t, Len(Lt) + 1))
              ELSE IF StartsWith(t, Gt) THEN <<">">> \o decode(From(t, Len(Gt) + 1))
              ELSE <<"&">> \o decode(Tail(t)))

\* tempDiv.innerHTML = html; tempDiv.textContent: the text nodes of the
\* parsed fragment, one after the other.  The inputs are well-formed: every
\* '<' opens a tag that is closed, so the text is what the tags leave, with
\* its character references decoded.
textContent(html) == decode(stripTags(html))

\* div.textContent = text; div.innerHTML
RECURSIVE escapeHtml(_)
escapeHtml(text) ==
    LET i == IndexOf(text, {"&", "<", ">"})
    IN  IF i = 0 THEN text
        ELSE SubSeq(text, 1, i - 1) \o
             (CASE text[i] = "&" -> Amp
                [] text[i] = "<" -> Lt
                [] OTHER -> Gt) \o escapeHtml(From(text, i + 1))

UntitledNote ==
    <<"U", "n", "t", "i", "t", "l", "e", "d", " ", "N", "o", "t", "e">>
ImportedNote ==
    <<"I", "m", "p", "o", "r", "t", "e", "d", " ", "N", "o", "t", "e">>
Ellipsis == <<".", ".", ".">>
DotTxt == <<".", "t", "x", "t">>
POpen == <<"<", "p", ">">>
PClose == <<"<", "/", "p", ">">>

\* extractFirstLineAsTitle(content)
extractFirstLineAsTitle(content) ==
    LET plainText == trim(stripTags(content))
        firstLine == trim(splitLines(plainText)[1])
    IN  IF content = <<>> THEN <<>>
        ELSE IF plainText = <<>> THEN <<>>
        ELSE IF firstLine # <<>> THEN firstLine ELSE UntitledNote

\* the title that keeps the whole first line
NoteTitle_Whole(firstLine) ==
    IF firstLine # <<>> THEN firstLine ELSE UntitledNote

\* const title of updateNoteTitle
NoteTitle(firstLine) ==
    IF firstLine # <<>>
    THEN SubSeq(firstLine, 1, IF Len(firstLine) < TitleMax
                              THEN Len(firstLine) ELSE TitleMax)
         \o (IF Len(firstLine) > TitleMax THEN Ellipsis ELSE <<>>)
    ELSE UntitledNote

\* sanitizeFilename(filename)
sanitizeFilename(filename) ==
    [i \in 1..Len(filename) |->
        toLowerCase(IF IsAlnum(filename[i]) THEN filename[i] ELSE "_")]

\* exportNoteAsText(id): null, or the record it returns
exportNoteAsText(ns, id) ==
    LET i == findIndex(ns, id)
    IN  IF i = 0 THEN [found |-> FALSE]
        ELSE [found |-> TRUE,
              title |-> ns[i].title,
              content |-> textContent(ns[i].content),
              filename |-> sanitizeFilename(ns[i].title) \o DotTxt]

\* filename.replace(/\.[^/.]+$/, ''): without its last extension
withoutExtension(filename) ==
    LET dots == {i \in 1..Len(filename) : filename[i] = "."}
        last == CHOOSE i \in dots : \A j \in dots : j <= i
    IN  IF dots # {} /\ last < Len(filename)
           /\ \A j \in (last + 1)..Len(filename) : filename[j] # "/"
        THEN SubSeq(filename, 1, last - 1)
        ELSE filename

\* importTextContent: the title and the content of the note it creates
importTitle(filename) ==
    IF filename # <<>> THEN withoutExtension(filename) ELSE ImportedNote

importHtml(content) ==
    LET lines == splitLines(content)
        trimmed == [i \in 1..Len(lines) |-> trim(lines[i])]
        kept == SelectSeq(trimmed, LAMBDA line : Len(line) > 0)
        html == join([i \in 1..Len(kept) |->
                         POpen \o escapeHtml(kept[i]) \o PClose])
    IN  IF html # <<>> THEN html ELSE POpen \o PClose

\* getNoteStats that counts the characters of the markup as well
getNoteStats_Markup(content) ==
    LET plainText == textContent(content)
    IN  [words |-> IF trim(plainText) # <<>>
                   THEN Len(splitRuns(trim(plainText), Space)) ELSE 0,
         characters |-> Len(content),
         sentences |-> IF trim(plainText) # <<>>
                       THEN Len(SelectSeq(splitRuns(plainText, {".", "!", "?"}),
                                          LAMBDA s : Len(trim(s)) > 0))
                       ELSE 0]

\* getNoteStats(content)
getNoteStats(content) ==
    LET plainText == textContent(content)
    IN  IF content = <<>>
        THEN [words |-> 0, characters |-> 0, sentences |-> 0]
        ELSE [words |-> IF trim(plainText) # <<>>
                        THEN Len(splitRuns(trim(plainText), Space)) ELSE 0,
              characters |-> Len(plainText),
              sentences |-> IF trim(plainText) # <<>>
                            THEN Len(SelectSeq(
                                     splitRuns(plainText, {".", "!", "?"}),
                                     LAMBDA s : Len(trim(s)) > 0))
                            ELSE 0]

\* ---- the inputs
MaxParas == 2       \* paragraphs of a note of the saved list

Rep(c, n) == [i \in 1..n |-> c]

\* the texts of a paragraph: no leading or trailing white space, not empty
LineTexts == { <<"a">>, <<"b", " ", "c">>, <<"x", "<", "y">> }

\* the content the editor leaves: one <p> element per line
RECURSIVE Paragraphs(_)
Paragraphs(lines) ==
    IF lines = <<>> THEN <<>>
    ELSE POpen \o escapeHtml(Head(lines)) \o PClose \o Paragraphs(Tail(lines))

LineSeqs == UNION {[1..n -> LineTexts] : n \in 1..MaxParas}

TextTitles == { <<"H", "i">>, <<"M", "y", " ", "N", "o", "t", "e", "1">>,
                <<"A", ",", " ", "b", "!">> }

\* the contents updateNoteTitle is called with
RunLengths == {1, TitleMax - 1, TitleMax, MaxRun}

TitleInputs ==
    { <<>>, <<" ">>, POpen \o <<" ", "\n">> \o PClose }
    \cup { POpen \o Rep("x", n) \o PClose : n \in RunLengths }
    \cup { <<" ">> \o Rep("x", n) \o <<" ", "\n", "b">> : n \in RunLengths }

\* the texts and the file names of the files the user uploads
ImportTexts ==
    { <<>>, <<"a", "\n", "b">>, <<" ", "a", " ", "\n", "\n", " ", "b", "&">> }

FileNames == { <<>>, <<"n", ".", "t", "x", "t">>, <<"a", ".", "b", ".">> }

\* the contents getNoteStats is called with
HelloWorldBye ==
    POpen \o <<"H", "e", "l", "l", "o", " ", "w", "o", "r", "l", "d", ".",
               " ", "B", "y", "e", "!">> \o PClose

StatsInputs ==
    { <<>>, HelloWorldBye, POpen \o <<" ">> \o PClose,
      Paragraphs(<<<<"a">>, <<"b", " ", "c">>>>),
      <<"?", "a", "&", "a", "m", "p", ";", "b", ".", "!", " ", "\n", "c">> }

\* the step just taken, with the argument it was called with
EA(op, id, arg, out) ==
    [op |-> op, id |-> id, out |-> out, i |-> 0, k |-> 0, arg |-> arg]

\* ---- the operations
\* exportNoteAsText(id), as TakenoteApp.downloadNote calls it
ExportNoteAsText(id) ==
    /\ events > 0
    /\ id \in Targets
    /\ events' = events - 1
    /\ ev' = EA("exportNoteAsText", id, <<>>, exportNoteAsText(notes, id))
    /\ notified' = 0
    /\ UNCHANGED <<user, handler, notes, activeNoteId, useDatabase, ls, db,
                   tasks, timers, autoSaveTimeout, nextTimer, nextId, clock,
                   as>>
    /\ UNCHANGED appVars
    /\ UNCHANGED deleted

\* importTextContent(content, filename) on the anonymous store: createNote
\* takes the local branch
ImportTextContent(content, filename) ==
    /\ events > 0
    /\ ~Remote
    /\ events' = events - 1
    /\ Commit(createNoteInStorage(Cur, importTitle(filename),
                                  importHtml(content)))
    /\ ev' = EA("importTextContent", nextId, content, filename)
    /\ UNCHANGED <<user, handler, useDatabase, db, tasks, timers,
                   autoSaveTimeout, nextTimer, as>>
    /\ UNCHANGED appVars
    /\ UNCHANGED deleted

\* updateNoteTitle(id, content) on the anonymous store: updateNote takes
\* the local branch
updateNoteTitle(id, content) ==
    /\ events > 0
    /\ ~Remote
    /\ id \in Targets
    /\ events' = events - 1
    /\ Commit(updateNoteInStorage(
                  Cur, id, NoteTitle(extractFirstLineAsTitle(content)),
                  content))
    /\ ev' = EA("updateNoteTitle", id, content,
                IF getNoteById(notes, id) THEN "updated" ELSE "null")
    /\ UNCHANGED <<user, handler, useDatabase, db, tasks, timers,
                   autoSaveTimeout, nextTimer, as>>
    /\ UNCHANGED appVars
    /\ UNCHANGED deleted

\* getNoteStats(content), as TakenoteApp.updateStats calls it
GetNoteStats(content) ==
    /\ events > 0
    /\ events' = events - 1
    /\ ev' = EA("getNoteStats", NoId, content, getNoteStats(content))
    /\ notified' = 0
    /\ UNCHANGED <<user, handler, notes, activeNoteId, useDatabase, ls, db,
                   tasks, timers, autoSaveTimeout, nextTimer, nextId, clock,
                   as>>
    /\ UNCHANGED appVars
    /\ UNCHANGED deleted

\* ---- the events of the editor (Editor, TakenoteApp)
\* TakenoteApp.handleContentChange(content), the editor's onContentChange:
\* the statistics are displayed, and autoSaveNote is called for the current
\* note, which without a session returns at once and otherwise replaces
\* the pending timer.
handleContentChange(content) ==
    IF currentNoteId # NoId /\ user # NoUser
    THEN /\ timers' = {t \in timers : t.h # autoSaveTimeout}
                        \cup {[h |-> nextTimer, id |-> currentNoteId,
                               content |-> content]}
         /\ autoSaveTimeout' = nextTimer
         /\ nextTimer' = nextTimer + 1
         /\ as' = [call |-> <<currentNoteId, content>>,
                   prev |-> IF timers # {} THEN as.call ELSE <<>>,
                   fires |-> 0, wrote |-> <<>>]
    ELSE UNCHANGED <<timers, autoSaveTimeout, nextTimer, as>>

\* The 'input' event of the editor, the user having changed its text to c:
\* handleInput calls onContentChange and sets the timer of saveState anew.
HandleInput(c) ==
    /\ events > 0
    /\ appPc = "initialized"
    /\ c # editor.content
    /\ events' = events - 1
    /\ editor' = [editor EXCEPT !.content = c, !.saveStateTimeout = TRUE]
    /\ handleContentChange(c)
    /\ ev' = E("handleInput", currentNoteId, "")
    /\ notified' = 0
    /\ UNCHANGED <<user, handler, notes, activeNoteId, useDatabase, ls, db,
                   tasks, nextId, clock, loading, authPc, attempts, appPc,
                   currentNoteId, reading, deleted>>

\* The timer of handleInput fires: saveState().
SaveStateTimeout ==
    /\ editor.saveStateTimeout
    /\ editor' = [saveState(editor) EXCEPT !.saveStateTimeout = FALSE]
    /\ ev' = E("saveState", NoId, "")
    /\ notified' = 0
    /\ UNCHANGED <<user, handler, notes, activeNoteId, useDatabase, ls, db,
                   tasks, timers, autoSaveTimeout, nextTimer, nextId, clock,
                   events, as, loading, authPc, attempts, appPc,
                   currentNoteId, reading, deleted>>

\* ui.onUndo, or Ctrl+Z in the editor: undo(), which calls onContentChange
\* with the state it restored.
Undo ==
    /\ events > 0
    /\ appPc = "initialized"
    /\ events' = events - 1
    /\ editor' = undo(editor, Strings)
    /\ IF Len(editor.undoStack) > 0
       THEN handleContentChange(editor.undoStack[Len(editor.undoStack)])
       ELSE UNCHANGED <<timers, autoSaveTimeout, nextTimer, as>>
    /\ ev' = EA("undo", currentNoteId, editor.content,
                IF Len(editor.undoStack) > 0 THEN "undone" ELSE "nothing")
    /\ notified' = 0
    /\ UNCHANGED <<user, handler, notes, activeNoteId, useDatabase, ls, db,
                   tasks, nextId, clock, loading, authPc, attempts, appPc,
                   currentNoteId, reading, deleted>>

\* ui.onRedo, or Ctrl+Y or Ctrl+Shift+Z in the editor: redo(), which calls
\* onContentChange with the state it restored.
Redo ==
    /\ events > 0
    /\ appPc = "initialized"
    /\ events' = events - 1
    /\ editor' = redo(editor, Strings)
    /\ IF Len(editor.redoStack) > 0
       THEN handleContentChange(editor.redoStack[Len(editor.redoStack)])
       ELSE UNCHANGED <<timers, autoSaveTimeout, nextTimer, as>>
    /\ ev' = EA("redo", currentNoteId, editor.content,
                IF Len(editor.redoStack) > 0 THEN "redone" ELSE "nothing")
    /\ notified' = 0
    /\ UNCHANGED <<user, handler, notes, activeNoteId, useDatabase, ls, db,
                   tasks, nextId, clock, loading, authPc, attempts, appPc,
                   currentNoteId, reading, deleted>>

\* ---- file upload (TakenoteApp)
\* the files the user may pick: a MIME type, a name and the text
FileTypes == {"text/plain", "text/markdown", "image/png", ""}

UploadNames ==
    { <<"n", ".", "t", "x", "t">>, <<"N", ".", "T", "X", "T">>,
      <<"a", ".", "M", "d">>, <<"a", ".", "p", "n", "g">>,
      <<"t", "x", "t">> }

Files ==
    { [type |-> ty, name |-> n, text |-> <<"a", "\n", "b">>] :
          ty \in FileTypes, n \in UploadNames }

EndsWith(s, p) ==
    Len(s) >= Len(p) /\ SubSeq(s, Len(s) - Len(p) + 1, Len(s)) = p

\* allowedTypes.includes(file.type)
hasValidType(file) == file.type \in {"text/plain", "text/markdown"}

\* the test of the extension on the name as it is
hasValidExtension_CaseSensitive(file) ==
    \E ext \in {<<".", "t", "x", "t">>, <<".", "m", "d">>} :
        EndsWith(file.name, ext)

\* allowedExtensions.some(ext => file.name.toLowerCase().endsWith(ext))
hasValidExtension(file) ==
    \E ext \in {<<".", "t", "x", "t">>, <<".", "m", "d">>} :
        EndsWith([i \in 1..Len(file.name) |-> toLowerCase(file.name[i])], ext)

\* handleFileUpload(file), file given: the error message, or
\* reader.readAsText(file)
HandleFileUpload(file) ==
    /\ events > 0
    /\ appPc = "initialized"
    /\ events' = events - 1
    /\ IF ~hasValidType(file) /\ ~hasValidExtension(file)
       THEN /\ ev' = EA("handleFileUpload", NoId, file, "showErrorMessage")
            /\ UNCHANGED reading
       ELSE /\ ev' = EA("handleFileUpload", NoId, file, "readAsText")
            /\ reading' = reading \cup {file}
    /\ notified' = 0
    /\ UNCHANGED <<user, handler, notes, activeNoteId, useDatabase, ls, db,
                   tasks, timers, autoSaveTimeout, nextTimer, nextId, clock,
                   as, loading, authPc, attempts, appPc, currentNoteId,
                   editor, deleted>>

\* handleFileUpload(null)
HandleNoFile ==
    /\ events > 0
    /\ appPc = "initialized"
    /\ events' = events - 1
    /\ ev' = EA("handleFileUpload", NoId, <<>>, "return")
    /\ notified' = 0
    /\ UNCHANGED <<user, handler, notes, activeNoteId, useDatabase, ls, db,
                   tasks, timers, autoSaveTimeout, nextTimer, nextId, clock,
                   as>>
    /\ UNCHANGED appVars
    /\ UNCHANGED deleted

\* reader.onload on the anonymous store: importTextContent creates the note
\* and switchToNote makes it the current one, after saveCurrentNote has
\* stored what the editor holds (content) in the note that was current.
ReaderOnLoad(file, content) ==
    /\ file \in reading
    /\ ~Remote
    /\ reading' = reading \ {file}
    /\ LET S1 == createNoteInStorage(Cur, importTitle(file.name),
                                     importHtml(file.text))
           S2 == IF currentNoteId # NoId
                 THEN updateNoteInStorage(
                          S1, currentNoteId,
                          NoteTitle(extractFirstLineAsTitle(content)), content)
                 ELSE S1
       IN  /\ Commit(setActiveNote(S2, nextId))
           /\ currentNoteId' = nextId
           /\ editor' = setContent(editor, importHtml(file.text), Chars)
    /\ ev' = EA("readerOnLoad", nextId, file, content)
    /\ UNCHANGED <<user, handler, useDatabase, db, tasks, timers,
                   autoSaveTimeout, nextTimer, as, events, loading, authPc,
                   attempts, appPc, deleted>>

\* reader.onerror: the error message
ReaderOnError(file) ==
    /\ file \in reading
    /\ reading' = reading \ {file}
    /\ ev' = EA("readerOnError", NoId, file, "showErrorMessage")
    /\ notified' = 0
    /\ UNCHANGED <<user, handler, notes, activeNoteId, useDatabase, ls, db,
                   tasks, timers, autoSaveTimeout, nextTimer, nextId, clock,
                   as, events, loading, authPc, attempts, appPc,
                   currentNoteId, editor, deleted>>

\* what the user may change the text of the editor to
EditorContents == { Paragraphs(<<<<"a">>>>), <<>> }

\* What the Local Store holds when the page is opened: one note the editor
\* saved.
TextStores ==
    { [state |-> "ok", notes |-> <<Note(6, t, Paragraphs(ls0), 6)>>,
       active |-> 6] : t \in TextTitles, ls0 \in LineSeqs }

InitText ==
    /\ user = NoUser
    /\ handler = "nm"
    /\ useDatabase = FALSE
    /\ db = {}
    /\ \E ls0 \in TextStores :
          LET S == loadNotesFromStorage(
                       [notes |-> <<>>, active |-> NoId, ls |-> ls0,
                        nextId |-> 7, clock |-> 7, re |-> FALSE,
                        fired |-> 0])
          IN  /\ notes = S.notes
              /\ activeNoteId = S.active
              /\ ls = S.ls
              /\ nextId = S.nextId
              /\ clock = S.clock
              /\ notified = S.fired
    /\ tasks = <<>>
    /\ timers = {}
    /\ autoSaveTimeout = 0
    /\ nextTimer = 1
    /\ events = MaxEvents
    /\ as = [call |-> <<>>, prev |-> <<>>, fires |-> 0, wrote |-> <<>>]
    /\ ev = EA("init", NoId, <<>>, "")
    /\ loading = FALSE
    /\ authPc = "done"
    /\ attempts = 0
    /\ appPc = "initialized"
    /\ currentNoteId = activeNoteId
    /\ reading = {}
    /\ editor = setContent(NewEditor(Chars), notes[1].content, Chars)
    /\ deleted = {}

NextText ==
    \/ \E id \in Targets : ExportNoteAsText(id)
    \/ \E content \in ImportTexts
                      \cup (IF ev.op = "exportNoteAsText" /\ ev.out.found
                            THEN {ev.out.content} ELSE {}),
          filename \in FileNames : ImportTextContent(content, filename)
    \/ \E id \in Targets, content \in TitleInputs :
          updateNoteTitle(id, content)
    \/ \E content \in StatsInputs : GetNoteStats(content)

SpecText == InitText /\ [][NextText]_vars

\* ------------------------------------------ specification: the file upload
\* The upload of files on an anonymous store whose list is one note.
InitUpload ==
    /\ InitText
    /\ notes = <<Note(6, <<"H", "i">>, Paragraphs(<<<<"a">>>>), 6)>>

NextUpload ==
    \/ \E file \in Files : HandleFileUpload(file)
    \/ HandleNoFile
    \/ \E file \in Files : ReaderOnLoad(file, editor.content)
    \/ \E c \in EditorContents : HandleInput(c)
    \/ SaveStateTimeout
    \/ \E file \in Files : ReaderOnError(file)

SpecUpload == InitUpload /\ [][NextUpload]_vars

\* ------------------------------------------- specification: the start-up
\* Auth.initializeAuth and TakenoteApp.initializeApp from the construction
\* of the application to the end of both.  The requests the Note Store
\* sends when it is told the user are answered in Spec.

maxAttempts == 50   \* const maxAttempts = 50

\* initializeAuth resumes after `await getUser()` with the user u (NoUser:
\* no session, or an error result): setUser(u) tells the subscriber bound
\* at that moment, and the auth listener is registered.
GetUserDone(u) ==
    /\ authPc = "getUser"
    /\ u \in Users \cup {NoUser}
    /\ \/ setUser_SignedIn(u)
       \/ u = NoUser /\ setUser_SignedOut
       \/ setUser_App(u)
    /\ authPc' = "finally"
    /\ currentNoteId' =                           \* loadActiveNote
          IF handler = "app" /\ u # NoUser /\ activeNoteId # NoId
          THEN activeNoteId ELSE currentNoteId
    /\ editor' =                                  \* loadActiveNote
          IF handler = "app" /\ u # NoUser /\ activeNoteId # NoId
          THEN setContent(editor,
                          notes[findIndex(notes, activeNoteId)].content,
                          Strings)
          ELSE editor
    /\ UNCHANGED <<loading, attempts, appPc, reading, deleted>>

\* initializeAuth that returns from its catch block without the finally
GetUserFailed_NoFinally ==
    /\ authPc = "getUser"
    /\ events > 0
    /\ events' = events - 1
    /\ authPc' = "done"
    /\ ev' = E("getUserFailed", NoId, "")
    /\ notified' = 0
    /\ UNCHANGED <<user, handler, notes, activeNoteId, useDatabase, ls, db,
                   tasks, timers, autoSaveTimeout, nextTimer, nextId, clock,
                   as, loading, attempts, appPc, currentNoteId, reading,
                   editor, deleted>>

\* `await getUser()` throws: the catch block logs it
GetUserFailed ==
    /\ authPc = "getUser"
    /\ events > 0
    /\ events' = events - 1
    /\ authPc' = "finally"
    /\ ev' = E("getUserFailed", NoId, "")
    /\ notified' = 0
    /\ UNCHANGED <<user, handler, notes, activeNoteId, useDatabase, ls, db,
                   tasks, timers, autoSaveTimeout, nextTimer, nextId, clock,
                   as, loading, attempts, appPc, currentNoteId, reading,
                   editor, deleted>>

\* finally { this.loading = false; ... }, which follows the try or the
\* catch block without a break
InitializeAuthFinally ==
    /\ authPc = "finally"
    /\ loading' = FALSE
    /\ authPc' = "done"
    /\ ev' = E("authReady", NoId, "")
    /\ notified' = 0
    /\ UNCHANGED <<user, handler, notes, activeNoteId, useDatabase, ls, db,
                   tasks, timers, autoSaveTimeout, nextTimer, nextId, clock,
                   as, events, attempts, appPc, currentNoteId, reading,
                   editor, deleted>>

\* waitForAuth that polls for as long as Auth is loading
WaitForAuthPoll_Unbounded ==
    /\ appPc = "waitForAuth"
    /\ authPc # "finally"
    /\ attempts' = attempts + 1
    /\ IF loading
       THEN UNCHANGED <<appPc, handler, editor>>
       ELSE /\ appPc' = "initialized"
            /\ editor' = saveState(editor)
            /\ handler' = "app"
    /\ ev' = E("waitForAuth", NoId, IF loading THEN "poll" ELSE "ready")
    /\ notified' = 0
    /\ UNCHANGED <<user, notes, activeNoteId, useDatabase, ls, db,
                   tasks, timers, autoSaveTimeout, nextTimer, nextId, clock,
                   as, events, loading, authPc, currentNoteId, reading,
                   deleted>>

\* The 100 ms timer of waitForAuth fires: attempts++, then the test of the
\* loop, which sets the next timer or ends the wait; initializeApp then goes
\* on to bindEvents, which rebinds onUserChange, and to updateUI.
WaitForAuthPoll ==
    /\ appPc = "waitForAuth"
    /\ authPc # "finally"
    /\ attempts' = attempts + 1
    /\ IF loading /\ attempts' < maxAttempts
       THEN UNCHANGED <<appPc, handler, editor>>
       ELSE /\ appPc' = "initialized"
            /\ editor' = saveState(editor)      \* new Editor(...)
            /\ handler' = "app"                 \* bindEvents
    /\ ev' = E("waitForAuth", NoId,
               IF loading /\ attempts' < maxAttempts THEN "poll"
               ELSE IF loading THEN "timeout" ELSE "ready")
    /\ notified' = 0
    /\ UNCHANGED <<user, notes, activeNoteId, useDatabase, ls, db,
                   tasks, timers, autoSaveTimeout, nextTimer, nextId, clock,
                   as, events, loading, authPc, currentNoteId, reading,
                   deleted>>

NextBoot ==
    \/ \E u \in Users \cup {NoUser} : GetUserDone(u)
    \/ GetUserFailed
    \/ InitializeAuthFinally
    \/ WaitForAuthPoll

SpecBoot == Init /\ [][NextBoot]_vars

\* The start-up when the browser runs the continuations and fires the
\* timers that are due; the request of getUser may stay unanswered.
SpecBootTimers ==
    /\ SpecBoot
    /\ WF_vars(InitializeAuthFinally)
    /\ WF_vars(WaitForAuthPoll)

\* The start-up when, in addition, the request of getUser is answered or
\* fails.
SpecBootSettles ==
    /\ SpecBootTimers
    /\ WF_vars((\E u \in Users \cup {NoUser} : GetUserDone(u)) \/ GetUserFailed)

\* ---------------------------------------- specification: the application
\* TakenoteApp once initializeApp has run after a start-up without a
\* session: the Note Store is in local mode and stays there, because
\* bindEvents has replaced its subscription; a user who signs in later is
\* known to Auth and to the application only.

\* createNewNote(): createNote takes the local branch
AppCreateNewNote ==
    /\ events > 0
    /\ appPc = "initialized"
    /\ ~Remote
    /\ events' = events - 1
    /\ Commit(createNoteInStorage(Cur, UntitledTitle, ""))
    /\ currentNoteId' = nextId
    /\ editor' = setContent(editor, EmptyParagraph, Strings)
    /\ ev' = ET("createNewNote", nextId, "created", 0, currentNoteId)
    /\ UNCHANGED <<user, handler, useDatabase, db, tasks, timers,
                   autoSaveTimeout, nextTimer, as, loading, authPc, attempts,
                   appPc, reading, deleted>>

\* switchToNote(noteId): saveCurrentNote (updateNoteTitle of the current
\* note with what the editor holds, local branch) when another note is
\* current, then setActiveNote and the note in the editor.  The step record
\* keeps in k the note that was current.
AppSwitchToNote(id) ==
    /\ events > 0
    /\ appPc = "initialized"
    /\ ~Remote
    /\ id \in Targets
    /\ events' = events - 1
    /\ IF ~getNoteById(notes, id)
       THEN /\ ev' = ET("switchToNote", id, "null", 0, currentNoteId)
            /\ notified' = 0
            /\ UNCHANGED <<notes, activeNoteId, ls, nextId, clock,
                           currentNoteId, editor>>
       ELSE LET note == notes[findIndex(notes, id)]
                S1 == IF currentNoteId # NoId /\ currentNoteId # id
                      THEN updateNoteInStorage(
                               Cur, currentNoteId, TitleOf(editor.content),
                               editor.content)
                      ELSE Cur
            IN  /\ Commit(setActiveNote(S1, id))
                /\ currentNoteId' = id
                /\ editor' = setContent(editor, note.content, Strings)
                /\ ev' = ET("switchToNote", id, "switched", 0, currentNoteId)
    /\ UNCHANGED <<user, handler, useDatabase, db, tasks, timers,
                   autoSaveTimeout, nextTimer, as, loading, authPc, attempts,
                   appPc, reading, deleted>>

\* TakenoteApp.deleteNote resumes after `await noteManager.deleteNote(id)`
\* (DeleteDone) and goes on: when the current note was deleted, the new
\* active note becomes the current one, or createNewNote() makes one.
AppDeleteDone(i) ==
    /\ i \in 1..Len(tasks)
    /\ tasks[i].pc = "delete"
    /\ tasks[i].st # "sent"
    /\ appPc = "initialized"
    /\ ~Remote
    /\ LET t == tasks[i]
           k == findIndex(notes, t.id)
           rest == splice(notes, k)
           res == deleteResult(t.st, k)
           act == IF activeNoteId = t.id THEN activeAfterDelete(rest, k)
                  ELSE activeNoteId
           S1 == notify([Cur EXCEPT !.notes = rest, !.active = act])
       IN  IF res = "true"
           THEN /\ deleted' = deleted \cup {t.id}
                /\ ev' = ET("deleteDone", t.id, res, i,
                            IF activeNoteId = t.id THEN k ELSE 0)
                /\ IF t.id # currentNoteId
                   THEN /\ Commit(S1)
                        /\ UNCHANGED <<currentNoteId, editor>>
                   ELSE IF getNoteById(rest, act)
                   THEN /\ Commit(S1)
                        /\ currentNoteId' = act
                        /\ editor' = setContent(
                               editor, rest[findIndex(rest, act)].content,
                               Strings)
                   ELSE /\ Commit(createNoteInStorage(S1, UntitledTitle, ""))
                        /\ currentNoteId' = nextId
                        /\ editor' = setContent(editor, EmptyParagraph,
                                                Strings)
           ELSE /\ ev' = ET("deleteDone", t.id, res, i, 0)
                /\ notified' = 0
                /\ UNCHANGED <<notes, activeNoteId, ls, nextId, clock,
                               currentNoteId, editor, deleted>>
    /\ tasks' = Drop(tasks, i)
    /\ UNCHANGED <<user, handler, useDatabase, db, timers, autoSaveTimeout,
                   nextTimer, events, as, loading, authPc, attempts, appPc,
                   reading>>

\* what the user may change the text of the editor to: a short text, or
\* the paragraph emptied again
TypedTexts == Contents \cup {EmptyParagraph}

\* the editor after the user has emptied the paragraph, saveState has run,
\* and undo and redo have been called in turn n - 1 times
CycledEditor(n) ==
    [content |-> EmptyParagraph,
     undoStack |-> [i \in 1..n |-> IF i = n THEN "" ELSE EmptyParagraph],
     redoStack |-> <<>>, lastSavedState |-> EmptyParagraph,
     saveStateTimeout |-> FALSE]

\* the editor after n changes typed by the user ("a", "b", "a", ...), each
\* followed by the saveState of its timer
TypedEditor(n) ==
    LET typed(i) == IF i = 0 THEN "" ELSE IF i % 2 = 1 THEN "a" ELSE "b"
    IN  [content |-> typed(n), undoStack |-> [i \in 1..n |-> typed(i - 1)],
         redoStack |-> <<>>, lastSavedState |-> typed(n),
         saveStateTimeout |-> FALSE]

\* The state initializeApp leaves after a start-up without a session, and
\* the same state after the user has typed into the editor often enough
\* to bring the undo stack to one entry below its limit, or has brought it
\* to the limit with undo and redo.
InitApp ==
    /\ user = NoUser
    /\ handler = "app"
    /\ useDatabase = FALSE
    /\ db = {Row(4, "u2", "b", "b", 4)}
    /\ \E ls0 \in InitialStores :
          LET S == loadNotesFromStorage(
                       [notes |-> <<>>, active |-> NoId, ls |-> ls0,
                        nextId |-> 5, clock |-> 5, re |-> FALSE,
                        fired |-> 0])
          IN  /\ notes = S.notes
              /\ activeNoteId = S.active
              /\ ls = S.ls
              /\ nextId = S.nextId
              /\ clock = S.clock
              /\ notified = S.fired
    /\ tasks = <<>>
    /\ timers = {}
    /\ autoSaveTimeout = 0
    /\ nextTimer = 1
    /\ events = MaxEvents
    /\ as = [call |-> <<>>, prev |-> <<>>, fires |-> 0, wrote |-> <<>>]
    /\ ev = E("init", NoId, "")
    /\ loading = FALSE
    /\ authPc = "done"
    /\ attempts = 1
    /\ appPc = "initialized"
    /\ currentNoteId = NoId
    /\ reading = {}
    /\ editor \in {TypedEditor(0), TypedEditor(maxUndoLevels - 1),
                  CycledEditor(maxUndoLevels)}
    /\ deleted = {}

NextApp ==
    \/ \E c \in TypedTexts : HandleInput(c)
    \/ SaveStateTimeout
    \/ Undo
    \/ Redo
    \/ AppCreateNewNote
    \/ \E id \in Targets : AppSwitchToNote(id)
    \/ \E u \in Users \cup {NoUser} : AppUserChange(u)
    \/ \E id \in Targets : DeleteNote(id)
    \/ TimerFire
    \/ \E i \in 1..MaxTasks :
          \/ Server(i)
          \/ ServerFail(i)
          \/ AppDeleteDone(i)

SpecApp == InitApp /\ [][NextApp]_vars

\* ====================================================================
\* Properties
\* ====================================================================
IdsOf(ns) == {ns[j].id : j \in 1..Len(ns)}

\* the requests in flight or answered, without the iterator bookkeeping
Requests(ts) == [j \in 1..Len(ts) |-> <<ts[j].kind, ts[j].pc, ts[j].st>>]

\* C2: deleteNote(id) without a signed-in user throws the authorization
\* error, sends no request and leaves the list, the active pointer and the
\* Local Store as they were, whether or not id is in the list.
C2_DeleteAnonymousRejected ==
    [][(ev'.op = "deleteNote" /\ user = NoUser) =>
          /\ ev'.out = "AuthError"
          /\ UNCHANGED <<notes, activeNoteId, ls, db, tasks>>]_vars

\* C2 witness: an anonymous deleteNote of a note that is in the list, and
\* that is not alone in it, has been refused.
C2_Witness ==
    /\ ev.op = "deleteNote" /\ ev.out = "AuthError"
    /\ user = NoUser
    /\ ev.id \in IdsOf(notes)
    /\ Len(notes) > 1

C6_DeleteFailureSurfaced ==
    [][ev'.op = "deleteDone" =>
          /\ tasks[ev'.i].st = "err" =>
                /\ ev'.out = "Failed"
                /\ UNCHANGED <<notes, activeNoteId, ls>>
          /\ notes' # notes => tasks[ev'.i].st = "ok"]_vars

\* C6 witness: a delete of a note of the list was rejected while a user is
\* signed in, and the note is still there.
C6_Witness ==
    /\ ev.op = "deleteDone" /\ ev.out = "Failed"
    /\ user # NoUser
    /\ ev.id \in IdsOf(notes)

\* C4 as stated: in every state, also while an operation is suspended at
\* a remote call, the active pointer is empty exactly when the list is
\* empty, and otherwise it is the id of exactly one note of the list.
C4_ExactlyOneActive ==
    /\ (activeNoteId = NoId) <=> (Len(notes) = 0)
    /\ activeNoteId # NoId =>
          Cardinality({j \in 1..Len(notes) : notes[j].id = activeNoteId}) = 1

\* C7 as stated: after every successful create, update and delete and after
\* every reload of the list, the Local Store holds the in-memory list and
\* the in-memory active pointer.
Mirrored ==
    /\ ls.state = "ok"
    /\ ls.notes = notes
    /\ ls.active = activeNoteId

C7_LocalStoreMirrorsMemory ==
    \/ /\ ev.op = "createNote" /\ ev.out = "local"
    \/ /\ ev.op = "createDone"
    \/ /\ ev.op \in {"updateNote", "autoSave"} /\ ev.out = "updated"
    \/ /\ ev.op = "updateDone" /\ ev.out \in {"updated", "fallback"}
    \/ /\ ev.op = "deleteDone" /\ ev.out = "true"
    \/ /\ ev.op \in {"signOut", "hucDone"}
    => Mirrored

\* C8 as stated: after every sign-in and sign-out notification of the Auth
\* Session, also after the application has bound its events, the store is
\* in remote mode exactly when a user is signed in, and the list is reloaded
\* for that mode (from the Local Store at once, from the remote table by a
\* handleUserChange that is now in progress).
C8_StoreFollowsSession ==
    ev.op \in {"signIn", "signOut", "appUserChange"} =>
        /\ useDatabase <=> (user # NoUser)
        /\ user # NoUser =>
              \E j \in 1..Len(tasks) :
                  tasks[j].kind = "huc" /\ tasks[j].user = user
        /\ user = NoUser => notes = ls.notes

C5_AutoSaveDebounced ==
    as.call # <<>> =>
        /\ as.fires <= 1
        /\ as.fires = 0 =>
              timers = {[h |-> autoSaveTimeout, id |-> as.call[1],
                         content |-> as.call[2]]}
        /\ as.fires = 1 => timers = {} /\ as.wrote = as.call
        /\ \A j \in 1..Len(tasks) :
              tasks[j].src # 0 /\ tasks[j].src = autoSaveTimeout =>
                  /\ tasks[j].id = as.call[1]
                  /\ tasks[j].content = as.call[2]
        /\ ev.op = "autoSave" /\ ev.out = "updated" =>
              /\ notes[findIndex(notes, ev.id)].content = as.call[2]
              /\ Mirrored

\* C5 witness: two calls for the same note with different contents, the
\* second while the timer of the first was pending; the timer has fired once
\* and the note now holds the content of the second call.
C5_Witness ==
    /\ as.call # <<>> /\ as.prev # <<>>
    /\ as.prev[1] = as.call[1] /\ as.prev[2] # as.call[2]
    /\ as.fires = 1
    /\ user # NoUser
    /\ ev.op \in {"autoSave", "updateDone"} /\ ev.out = "updated"
    /\ getNoteById(notes, as.call[1])
    /\ notes[findIndex(notes, as.call[1])].content = as.call[2]

\* C1 as stated: for a handleUserChange(user) that starts without a user
\* signed in: when the user owned a row beforehand, the migration issues no
\* insert; when the user owned none, every note of the list before the
\* sign-in has a row of that user with its title and content once the
\* transition is over.
C1_MigrationCompleteOrSkipped ==
    [][/\ \A j \in 1..Len(tasks') :
             (tasks'[j].kind = "huc" /\ tasks'[j].from = NoUser
                 /\ tasks'[j].hadRows) => tasks'[j].ins = 0
       /\ ev'.op = "hucDone" =>
             LET t == tasks[ev'.i]
             IN  (t.from = NoUser /\ ~t.hadRows) =>
                     \A j \in 1..Len(t.pre) :
                         \E r \in db' : /\ r.user_id = t.who
                                        /\ r.title = t.pre[j].title
                                        /\ r.content = t.pre[j].content]_vars

\* the list ns holds exactly the rows R, one note per row, newest-updated
\* first
ListsRows(ns, R) ==
    /\ Len(ns) = Cardinality(R)
    /\ \A r \in R : \E j \in 1..Len(ns) :
          /\ ns[j].id = r.id
          /\ ns[j].title = r.title
          /\ ns[j].content = r.content
          /\ ns[j].updatedAt = r.updated_at
    /\ \A j \in 1..Len(ns), k \in 1..Len(ns) :
          j < k => ns[j].updatedAt >= ns[k].updatedAt

\* what C9 says of the state in which the transition of task t is over
TransitionLoaded(t, seeded) ==
    /\ ListsRows(notes', {r \in db' : r.user_id = t.who})
    /\ Len(notes') > 0
    /\ activeNoteId' = notes'[1].id
    /\ ls'.state = "ok" /\ ls'.notes = notes'
    /\ seeded =>
          /\ Len(notes') = 1
          /\ notes'[1].title = WelcomeTitle
          /\ notes'[1].content = WelcomeRemote

C11_CreateNotePrepends ==
    [][/\ (\/ ev'.op = "createNote" /\ ev'.out = "local"
           \/ ev'.op = "createDone") =>
              /\ ev'.id \notin IdsOf(notes)
              /\ Len(notes') = Len(notes) + 1
              /\ notes'[1].id = ev'.id
              /\ \A j \in 1..Len(notes) : notes'[j + 1] = notes[j]
              /\ activeNoteId' = ev'.id
              /\ ls'.state = "ok" /\ ls'.notes = notes'
              /\ ls'.active = activeNoteId'
       /\ (ev'.op = "createNote" /\ ev'.out = "local") => db' = db
       /\ (ev'.op = "server" /\ tasks[ev'.i].pc = "insert") =>
              /\ db \subseteq db'
              /\ Cardinality(db' \ db) = 1
              /\ \A r \in db' \ db : /\ r.user_id = tasks[ev'.i].user
                                     /\ r.title = tasks[ev'.i].title
                                     /\ r.content = tasks[ev'.i].content
      ]_vars

\* C12: when createNoteInDatabase resumes with a rejected insert it falls
\* back to a local note with the title and content of the call: the note
\* has a fresh id, is at index 0 before the notes the list held, is active
\* and saved in the Local Store; the operation is over, having sent its one
\* insert: no request is in flight that was not before, and the remote
\* table is as it was.
C12_CreateFallsBackLocally ==
    [][(ev'.op = "createDone" /\ tasks[ev'.i].st = "err") =>
          LET t == tasks[ev'.i]
          IN  /\ ev'.out = "fallback"
              /\ ev'.id \notin IdsOf(notes)
              /\ notes' = <<Note(ev'.id, t.title, t.content,
                                 notes'[1].updatedAt)>> \o notes
              /\ activeNoteId' = ev'.id
              /\ ls'.state = "ok" /\ ls'.notes = notes'
              /\ ls'.active = ev'.id
              /\ Len(tasks') = Len(tasks) - 1
              /\ \A j \in 1..Len(tasks') : \E k \in 1..Len(tasks) :
                    k # ev'.i /\ tasks'[j] = tasks[k]
              /\ db' = db
       ]_vars

\* C12 witness: in remote mode with a user signed in and notes loaded, the
\* insert of a createNote was rejected; the note returned is local (no row
\* has its id), first in the list before the notes held, active and saved.
C12_Witness ==
    /\ ev.op = "createDone" /\ ev.out = "fallback"
    /\ user # NoUser /\ useDatabase
    /\ Len(notes) >= 2
    /\ notes[1].id = ev.id /\ activeNoteId = ev.id
    /\ notes[1].title = UntitledTitle
    /\ ls.notes = notes
    /\ \A r \in db : r.id # ev.id

\* the list ns2 is the list ns with the fields merged into its note id,
\* stamped at, and every other note as it was
Merged(ns, ns2, id, title, content, at) ==
    /\ Len(ns2) = Len(ns)
    /\ \A j \in 1..Len(ns) :
          IF j = findIndex(ns, id)
          THEN ns2[j] = Note(id, title, content, at)
          ELSE ns2[j] = ns[j]

\* C13 as stated: an updateNote for an id of the list merges the fields into
\* that note with a new updatedAt, persists and mirrors it and takes the
\* branch that notifies, every other note as it was; an updateNote for an id
\* the list does not hold returns null on the branch that does not notify
\* and changes neither the list nor the Local Store nor the remote table, in
\* local mode (the call itself) and in remote mode (the request the backend
\* executes for it, and the resumption with its response).
C13_UpdateMergesOrNoOp ==
    [][/\ (ev'.op \in {"updateNote", "autoSave"} /\ ev'.out # "sent") =>
              IF ev'.id \in IdsOf(notes)
              THEN /\ ev'.out = "updated"
                   /\ \E c \in Contents :
                         Merged(notes, notes', ev'.id, TitleOf(c), c, clock)
                   /\ ls'.state = "ok" /\ ls'.notes = notes'
                   /\ db' = db
              ELSE /\ ev'.out = "null"
                   /\ UNCHANGED <<notes, activeNoteId, ls, db>>
       /\ (ev'.op = "server" /\ tasks[ev'.i].pc = "update") =>
              LET t == tasks[ev'.i]
              IN  IF t.had
                  THEN \A r \in db' : (r.id = t.id /\ r.user_id = t.user) =>
                          /\ r.title = t.title
                          /\ r.content = t.content
                          /\ r.updated_at = t.at
                  ELSE db' = db
       /\ ev'.op = "updateDone" =>
              LET t == tasks[ev'.i]
              IN  IF t.had
                  THEN /\ ev'.out \in {"updated", "fallback"}
                       /\ \E at \in {t.at, clock} :
                             Merged(notes, notes', t.id, t.title, t.content,
                                    at)
                       /\ ls'.state = "ok" /\ ls'.notes = notes'
                  ELSE /\ ev'.out \in {"null", "fallbackNull"}
                       /\ UNCHANGED <<notes, activeNoteId, ls, db>>
      ]_vars

\* C14: when updateNoteInDatabase resumes with a rejected update of a note
\* the list holds, it raises nothing and returns the note updated locally:
\* the fields of the call are merged into the in-memory note, stamped with
\* the current time, every other note is as it was, the Local Store holds
\* the resulting list, and the remote table is left alone.
C14_UpdateFallsBackLocally ==
    [][(/\ ev'.op = "updateDone"
        /\ tasks[ev'.i].st = "err"
        /\ getNoteById(notes, tasks[ev'.i].id)) =>
          LET t == tasks[ev'.i]
          IN  /\ ev'.out = "fallback"
              /\ Merged(notes, notes', t.id, t.title, t.content, clock)
              /\ activeNoteId' = activeNoteId
              /\ ls'.state = "ok" /\ ls'.notes = notes'
              /\ db' = db
              /\ Len(tasks') = Len(tasks) - 1
       ]_vars

\* C14 witness: the update of a note of the signed-in user was rejected; the
\* in-memory note and the Local Store carry the content of the call while
\* the user's remote row still carries another.
C14_Witness ==
    /\ ev.op = "updateDone" /\ ev.out = "fallback"
    /\ user # NoUser /\ useDatabase
    /\ getNoteById(notes, ev.id)
    /\ ls.state = "ok" /\ ls.notes = notes
    /\ \E r \in db :
          /\ r.id = ev.id /\ r.user_id = user
          /\ r.content # notes[findIndex(notes, ev.id)].content
          /\ r.updated_at < notes[findIndex(notes, ev.id)].updatedAt

\* C15 as stated: after a create, an update or a delete has completed, the
\* list getAllNotes returns is, in remote mode, ordered by updatedAt, the
\* most recently updated note first, and, in local mode, ordered by
\* creation, the newest note first (identifiers are handed out in creation
\* order, locally and by the backend).
C15_ListOrdered ==
    (/\ ev.op \in {"createNote", "createDone", "updateNote", "autoSave",
                   "updateDone", "deleteDone"}
     /\ ev.out \notin {"sent", "error"}) =>
        IF Remote
        THEN \A j \in 1..Len(notes), k \in 1..Len(notes) :
                j < k => notes[j].updatedAt >= notes[k].updatedAt
        ELSE \A j \in 1..Len(notes), k \in 1..Len(notes) :
                j < k => notes[j].id > notes[k].id

\* C16 as stated: of two updates of the same note that were in flight
\* together, the one dispatched later wins: when the second of them to
\* resume has resumed (no update of that note is in flight any more), the
\* in-memory note and the user's remote row carry the content of the one
\* dispatched later, in whatever order the backend executed the requests
\* and the responses arrived.
C16_UpdatesAppliedInDispatchOrder ==
    [][ev'.op = "updateDone" =>
          LET t == tasks[ev'.i]
              last == IF t.sup # "" THEN t.sup ELSE t.content
          IN  (/\ t.sup # "" \/ t.after
               /\ \A j \in 1..Len(tasks') :
                     ~(tasks'[j].pc = "update" /\ tasks'[j].id = t.id)) =>
                  /\ \A j \in 1..Len(notes') :
                        notes'[j].id = t.id => notes'[j].content = last
                  /\ \A r \in db' :
                        (r.id = t.id /\ r.user_id = t.user) =>
                            r.content = last
       ]_vars

\* C17: the store never has more than one auto-save timer pending, and the
\* pending one is the timer of the last accepted autoSaveNote call, whatever
\* note the timer it replaced was for; a timer that fires writes the id and
\* the content of that last call.
C17_SingleAutoSaveTimer ==
    /\ Cardinality(timers) <= 1
    /\ \A t \in timers :
          /\ t.h = autoSaveTimeout
          /\ <<t.id, t.content>> = as.call
    /\ as.fires > 0 => as.wrote = as.call

\* C17 witness: an autoSaveNote call for one note was made while the timer
\* of a call for another note was pending; one timer has fired since, with
\* the id and content of the later call, and none is left.
C17_Witness ==
    /\ as.call # <<>> /\ as.prev # <<>>
    /\ as.prev[1] # as.call[1]
    /\ getNoteById(notes, as.prev[1]) /\ getNoteById(notes, as.call[1])
    /\ as.fires = 1 /\ as.wrote = as.call
    /\ timers = {}

\* C18: an autoSaveNote call made while no user is signed in returns at
\* once: the pending timers and the handle of the last one are as they
\* were, no request is sent, and the list, the active pointer, the Local
\* Store and the remote table are unchanged.
C18_AutoSaveNeedsSession ==
    [][(ev'.op = "autoSaveNote" /\ user = NoUser) =>
          /\ ev'.out = "ignored"
          /\ UNCHANGED <<timers, autoSaveTimeout, nextTimer, tasks, notes,
                         activeNoteId, ls, db, user, useDatabase>>
       ]_vars

\* C18 witness: autoSaveNote was called for a note of the list after the
\* user had signed out, while the timer of a call made during the session
\* was pending; that timer is still pending, for the content of that call.
C18_Witness ==
    /\ ev.op = "autoSaveNote" /\ ev.out = "ignored"
    /\ user = NoUser
    /\ getNoteById(notes, ev.id)
    /\ \E t \in timers : t.h = autoSaveTimeout /\ <<t.id, t.content>> = as.call
    /\ as.fires = 0

\* C19: in the state the constructor leaves (no session resolved yet), the
\* list is the list the Local Store held, with the saved active id when it
\* names a note of the list and the first note otherwise; if the Local Store
\* held no notes (no entry, or an empty list) the list is exactly one
\* welcome note created locally and saved; in every case the list is
\* non-empty and the active pointer names a note of it, and nothing was
\* sent to the backend.
C19_BootstrapLoadsOrSeeds ==
    ev.op = "init" =>
        /\ user = NoUser /\ ~useDatabase /\ tasks = <<>>
        /\ Len(notes) >= 1
        /\ activeNoteId \in IdsOf(notes)
        /\ (ev.out = "ok" /\ ev.k > 0) =>
              /\ notes = ls.notes
              /\ Len(notes) = ev.k
              /\ activeNoteId = IF ev.id \in IdsOf(notes) THEN ev.id
                                ELSE notes[1].id
        /\ (ev.out = "missing" \/ (ev.out = "ok" /\ ev.k = 0)) =>
              /\ Len(notes) = 1
              /\ notes[1].title = WelcomeTitle
              /\ notes[1].content = WelcomeLocal
              /\ activeNoteId = notes[1].id
              /\ ls = [state |-> "ok", notes |-> notes,
                       active |-> activeNoteId]

\* C19 witness: the page was opened on a Local Store without entries, and
\* the constructor has left one local welcome note, active and saved.
C19_Witness ==
    /\ ev.op = "init" /\ ev.out = "missing"
    /\ Len(notes) = 1
    /\ notes[1].content = WelcomeLocal
    /\ activeNoteId = notes[1].id
    /\ ls.state = "ok" /\ ls.notes = notes

\* the list is exactly one default note, just created, and it is active
OneDefaultNote(ns, act, next) ==
    /\ Len(ns) = 1
    /\ ns[1].title = WelcomeTitle
    /\ ns[1].content \in {WelcomeLocal, WelcomeError}
    /\ ns[1].id = next - 1
    /\ act = ns[1].id

\* C20 as stated: whenever loadNotesFromStorage finds no entry or an
\* unparsable entry in the Local Store, in the constructor or in the reload
\* of a sign-out, the store goes on with a list that is exactly one freshly
\* created default note, which is active.
C20_LoadRecoversToOneDefault ==
    /\ (ev.op = "init" /\ ev.out \in {"missing", "malformed"}) =>
          OneDefaultNote(notes, activeNoteId, nextId)
    /\ [][(ev'.op = "signOut" /\ ls.state \in {"missing", "malformed"}) =>
             OneDefaultNote(notes', activeNoteId', nextId')]_vars

\* C21 as stated: in every reachable state, the states in which a create or
\* a reload is suspended on the backend included, no two notes of the
\* in-memory list have the same identifier.
C21_IdsPairwiseDistinct ==
    \A j \in 1..Len(notes), k \in 1..Len(notes) :
        j # k => notes[j].id # notes[k].id

\* C22 as stated: the change notification is fired after every successful
\* create, update and delete and after every load or reload of the list from
\* the Local Store or from the remote table, and a step of an operation that
\* fails or changes nothing does not fire it.
C22_NotifiedOnChangeOnly ==
    [][LET e == ev'
           changing ==
               \/ e.op = "createNote" /\ e.out = "local"
               \/ e.op = "createDone"
               \/ /\ e.op \in {"updateNote", "autoSave", "updateDone"}
                  /\ e.out \in {"updated", "fallback"}
               \/ e.op = "deleteDone" /\ e.out = "true"
               \/ e.op \in {"signOut", "hucDone"}
           idle ==
               \/ /\ e.op \in {"updateNote", "autoSave", "updateDone"}
                  /\ e.out \in {"null", "fallbackNull"}
               \/ e.op = "deleteDone" /\ e.out \in {"false", "Failed"}
               \/ e.op = "deleteNote" /\ e.out = "AuthError"
               \/ e.out = "sent"
               \/ e.op \in {"server", "serverFail", "signIn", "autoSaveNote"}
       IN  /\ changing => notified' >= 1
           /\ idle => notified' = 0
           /\ notes' # notes /\ Len(notes') > 0 => notified' >= 1]_vars

C22_Witness ==
    /\ ev.op = "deleteDone"
    /\ ev.out = "true"
    /\ notified = 1

\* C23 as stated: every remote request the Note Store issues is scoped to the
\* id of the user who was signed in when the operation (the method that
\* issues it) started: a list or insert request carries that user_id, an
\* update or delete request matches on the note id and that user_id, and the
\* backend, which executes the request as it was scoped, neither returns nor
\* touches a row of another user.
C23_RequestsScopedToUser ==
    [][/\ \A j \in 1..Len(tasks') :
            LET t == tasks'[j]
                issued == /\ t.st = "sent"
                          /\ Len(tasks') >= Len(tasks)
                          /\ (j <= Len(tasks) => tasks[j].st # "sent")
            IN  issued =>
                   /\ t.user \in Accounts
                   /\ t.user = IF t.pc = "migInsert" THEN t.who ELSE user'
                   /\ (t.pc \in {"update", "delete"} => t.id # NoId)
       /\ ev'.op = "server" =>
            LET t == tasks[ev'.i]
                changed == (db' \ db) \cup (db \ db')
                data == tasks'[ev'.i].data
            IN  /\ \A r \in changed :
                      /\ r.user_id = t.user
                      /\ (t.pc \in {"update", "delete"} => r.id = t.id)
                /\ \A k \in 1..Len(data) : data[k].user_id = t.user]_vars

\* a request of the account that signed out is still in flight, or has just
\* been executed, when the other account is signed in
C23_Witness ==
    /\ user = "u2"
    /\ \E j \in 1..Len(tasks) : tasks[j].user = "u1"
    /\ ev.op = "server"
    /\ tasks[ev.i].user = "u1"

\* C24 as stated: exporting a note whose content is a sequence of paragraph
\* elements (each text non-empty, without leading or trailing white space)
\* and importing the exported plain text creates a note with the same
\* paragraphs: as many, with the same texts, in the same order.
C24_ExportImportRoundTrip ==
    [][(/\ ev.op = "exportNoteAsText"
        /\ ev.out.found
        /\ ev'.op = "importTextContent"
        /\ ev'.arg = ev.out.content) =>
           \A lines \in LineSeqs :
               notes[findIndex(notes, ev.id)].content = Paragraphs(lines) =>
                   notes'[1].content = Paragraphs(lines)]_vars

\* the text of s without the tags, read from position i on: a '<' opens a
\* tag, the next '>' closes it, and what is outside the tags is text
RECURSIVE TextFrom(_, _, _)
TextFrom(s, i, inTag) ==
    LET rest == From(s, i)
        c == IndexOf(rest, IF inTag THEN {">"} ELSE {"<"})
    IN  IF i > Len(s) THEN <<>>
        ELSE IF inTag
        THEN IF c = 0 THEN <<>> ELSE TextFrom(s, i + c, FALSE)
        ELSE IF c = 0 THEN rest
        ELSE SubSeq(rest, 1, c - 1) \o TextFrom(s, i + c, TRUE)

Untagged(s) == TextFrom(s, 1, FALSE)

\* the tokens of t: the positions where a run of non-white-space begins
Tokens(t) ==
    Cardinality({i \in 1..Len(t) :
                    t[i] \notin Space /\ (i = 1 \/ t[i - 1] \in Space)})

\* the segments of t between '.', '!' and '?' that hold a character that
\* is not white space: the positions where such a segment has its first one
Segments(t) ==
    LET End == {".", "!", "?"}
        ink(i) == t[i] \notin Space \cup End
    IN  Cardinality({i \in 1..Len(t) :
            /\ ink(i)
            /\ \A j \in 1..(i - 1) :
                   ink(j) => \E k \in (j + 1)..(i - 1) : t[k] \in End})

\* what C25 states of getNoteStats(content), the characters of the example
\* being n
StatsAsStated(n) ==
    ev.op = "getNoteStats" =>
        LET text == decode(Untagged(ev.arg))
        IN  /\ ev.out.words = Tokens(text)
            /\ ev.out.characters = Len(text)
            /\ ev.out.sentences = Segments(text)
            /\ ev.arg = HelloWorldBye =>
                   ev.out = [words |-> 3, characters |-> n, sentences |-> 2]

\* C25 as stated: getNoteStats returns the number of white-space-delimited
\* tokens, the length and the number of non-empty trimmed segments between
\* '.', '!' and '?' of the tag-stripped text; for "<p>Hello world. Bye!</p>"
\* it returns words 3, characters 15, sentences 2.
C25_Original_StatsOfExample15 == StatsAsStated(15)

\* C25, amended: as C25, the example "<p>Hello world. Bye!</p>" giving
\* words 3, characters 17, sentences 2; and the call leaves the store as it
\* was.
C25_StatsOfTaglessText ==
    /\ []StatsAsStated(17)
    /\ [][ev'.op = "getNoteStats" =>
             UNCHANGED <<notes, activeNoteId, ls, db, tasks, timers>>]_vars

C25_Witness ==
    /\ ev.op = "getNoteStats"
    /\ ev.arg = HelloWorldBye
    /\ ev.out.characters = 17

\* the first position of t from i on that holds no white space
RECURSIVE InkFrom(_, _)
InkFrom(t, i) ==
    IF i > Len(t) \/ t[i] \notin Space THEN i ELSE InkFrom(t, i + 1)

\* the last position of t up to i that holds no white space (0: none)
RECURSIVE InkUpTo(_, _)
InkUpTo(t, i) ==
    IF i = 0 \/ t[i] \notin Space THEN i ELSE InkUpTo(t, i - 1)

\* the characters of t from i up to the end of the line
LineFrom(t, i) ==
    LET rest == From(t, i)
        c == IndexOf(rest, {"\n"})
    IN  IF c = 0 THEN rest ELSE SubSeq(rest, 1, c - 1)

\* the first line of t that holds more than white space, without the white
\* space around it (<<>>: t holds white space only)
FirstLine(t) ==
    LET line == LineFrom(t, InkFrom(t, 1))
    IN  SubSeq(line, 1, InkUpTo(line, Len(line)))

\* C26 as stated: updateNoteTitle(id, content) on a note of the list sets its
\* title to the first tag-stripped line of the content when that has at most
\* 50 characters, to its first 50 characters followed by '...' when it is
\* longer, and to "Untitled Note" when the content is empty or holds only
\* white space outside its tags; the same update stores the content; on an
\* id that is not in the list it changes nothing.
C26_TitleFromFirstLine ==
    /\ [](ev.op = "updateNoteTitle" /\ ev.out = "updated" =>
             LET line == FirstLine(Untagged(ev.arg))
                 k == findIndex(notes, ev.id)
             IN  /\ k # 0
                 /\ notes[k].content = ev.arg
                 /\ notes[k].title =
                       IF Len(line) = 0 THEN UntitledNote
                       ELSE IF Len(line) <= 50 THEN line
                       ELSE SubSeq(line, 1, 50) \o <<".", ".", ".">>)
    /\ [][ev'.op = "updateNoteTitle" =>
             IF findIndex(notes, ev'.id) = 0
             THEN notes' = notes /\ ev'.out = "null"
             ELSE ev'.out = "updated"]_vars

C26_Witness ==
    /\ ev.op = "updateNoteTitle"
    /\ ev.out = "updated"
    /\ Len(FirstLine(Untagged(ev.arg))) > 50
    /\ \E k \in 1..Len(notes) :
          notes[k].id = ev.id /\ Len(notes[k].title) = 53

\* t lower-cased, every maximal run of characters that are neither letters
\* nor digits replaced by one '_'
RECURSIVE RunsReplaced(_, _)
RunsReplaced(t, i) ==
    IF i > Len(t) THEN <<>>
    ELSE IF IsAlnum(t[i]) THEN <<toLowerCase(t[i])>> \o RunsReplaced(t, i + 1)
    ELSE IF i > 1 /\ ~IsAlnum(t[i - 1]) THEN RunsReplaced(t, i + 1)
    ELSE <<"_">> \o RunsReplaced(t, i + 1)

\* C27 as stated: the file name of an export is the title of the note
\* lower-cased, every maximal run of non-alphanumeric characters replaced by
\* a single '_', followed by '.txt'; exportNoteAsText returns nothing for an
\* id that is not in the list, and it never changes the store.
C27_ExportFileName ==
    /\ [](ev.op = "exportNoteAsText" =>
             LET k == findIndex(notes, ev.id)
             IN  IF k = 0 THEN ~ev.out.found
                 ELSE /\ ev.out.found
                      /\ ev.out.filename =
                            RunsReplaced(notes[k].title, 1)
                                \o <<".", "t", "x", "t">>)
    /\ [][ev'.op = "exportNoteAsText" =>
             UNCHANGED <<notes, activeNoteId, ls, db, tasks, timers>>]_vars

\* the file has an accepted MIME type, or a name that ends in .txt or .md
\* whatever the case of its letters
Accepted(file) ==
    LET n == Len(file.name)
        c(i) == toLowerCase(file.name[i])
    IN  \/ file.type = "text/plain"
        \/ file.type = "text/markdown"
        \/ n >= 4 /\ c(n - 3) = "." /\ c(n - 2) = "t" /\ c(n - 1) = "x"
                  /\ c(n) = "t"
        \/ n >= 3 /\ c(n - 2) = "." /\ c(n - 1) = "m" /\ c(n) = "d"

\* C28 as stated: a file upload is accepted (its text is read, to be
\* imported) if and only if its MIME type is text/plain or text/markdown or
\* its name ends, case-insensitively, in .txt or .md; a rejected upload shows
\* the user an error, ends without an exception, creates no note and leaves
\* the list, the active pointer and the current-note id as they were.
C28_UploadAcceptedByTypeOrName ==
    /\ [](\A f \in reading : Accepted(f))
    /\ [][ev'.op = "handleFileUpload" /\ ev'.out # "return" =>
             IF Accepted(ev'.arg)
             THEN ev'.out = "readAsText" /\ ev'.arg \in reading'
             ELSE /\ ev'.out = "showErrorMessage"
                  /\ notified' = 0
                  /\ UNCHANGED <<notes, activeNoteId, currentNoteId, ls,
                                 nextId, reading>>]_vars

C28_Witness ==
    /\ ev.op = "handleFileUpload"
    /\ ev.out = "showErrorMessage"
    /\ ev.arg.type = "image/png"
    /\ Len(notes) = 2

\* C29 as stated: Auth's loading flag is true from construction until the
\* one start-up fetch of the current user settles; when the fetch resolves,
\* the subscriber bound at that moment is told the resolved user before
\* loading becomes false; and loading eventually becomes false, whether the
\* fetch succeeds or fails.
C29_LoadingUntilUserResolved ==
    /\ [](authPc = "getUser" => loading)
    /\ [][loading /\ ~loading' => authPc = "finally"]_vars
    /\ [][authPc = "getUser" /\ authPc' # "getUser"
              /\ ev'.op # "getUserFailed" =>
             /\ loading'
             /\ ev'.op = (IF handler = "app" THEN "appUserChange"
                          ELSE IF user' = NoUser THEN "signOut" ELSE "signIn")
             /\ handler = "nm" /\ user' # NoUser =>
                    \E i \in 1..Len(tasks') : tasks'[i].who = user']_vars
    /\ <>(~loading)

C29_Witness ==
    /\ loading
    /\ authPc = "finally"
    /\ ev.op = "signIn"
    /\ user = "u1"

\* C30 as stated: the application's wait for Auth always ends: it polls at
\* most 50 times and then goes on with its initialisation, even when Auth's
\* loading flag never becomes false.
C30_WaitForAuthEnds ==
    /\ [](attempts <= 50)
    /\ [][attempts' # attempts => attempts' = attempts + 1]_vars
    /\ [](attempts = 50 => appPc = "initialized")
    /\ <>(appPc = "initialized")

C30_Witness ==
    /\ appPc = "initialized"
    /\ attempts = 50
    /\ loading
    /\ handler = "app"

\* C31 as stated: a note that deleteNote has removed (the remote delete
\* succeeded and the note was taken out of the list) is never again in the
\* list, nor is a row with its id in the remote table, whatever sign-outs,
\* sign-ins and reloads follow.
C31_DeletedNeverReappears ==
    \A id \in deleted :
        /\ id \notin IdsOf(notes)
        /\ \A r \in db : r.id # id

\* C32 as stated: migrateToDatabase never inserts, under the id of the user
\* it runs for, a note that was loaded from the remote table of another
\* user (a note whose id is the id of a row that other user owns); in
\* particular not after sign-in A, sign-out, sign-in B.
C32_MigrationPushesOwnNotesOnly ==
    [][ev'.op = "hucStep" /\ ev'.out \in {"migCheck", "migInsert"}
          /\ tasks'[ev'.i].pc = "migInsert" =>
          LET t == tasks'[ev'.i]
              arr == IF t.live THEN notes' ELSE t.arr
          IN  \A r \in db : r.id = arr[t.idx].id => r.user_id = t.user]_vars

\* C33 as stated: when handleUserChange(user) is called a second time for
\* the user who is already signed in while the first call is still running
\* (both started from the same list), the two calls together send at most
\* one insert per note of that list, and at most one of them sends the
\* insert of a welcome note.
C33_BackToBackMigratesOnce ==
    \A i, j \in 1..Len(tasks) :
        i < j /\ tasks[i].kind = "huc" /\ tasks[j].kind = "huc"
              /\ tasks[i].who = tasks[j].who
              /\ tasks[j].from = tasks[j].who
              /\ tasks[i].pre = tasks[j].pre
        => /\ tasks[i].ins + tasks[j].ins <= Len(tasks[i].pre)
           /\ ~(tasks[i].pc = "seed" /\ tasks[j].pc = "seed")

\* C34 as stated: when a handleUserChange(user) that started without a user
\* signed in has finished, every note the list held when it started is
\* still kept somewhere: the user owns a row with its title and content, or
\* the Local Store holds a note with its id; also when migrateToDatabase
\* skipped the migration because the user owned rows already.
C34_SignInLosesNoNote ==
    [][ev'.op = "hucDone" /\ tasks[ev'.i].from = NoUser =>
          \A k \in 1..Len(tasks[ev'.i].pre) :
              LET n == tasks[ev'.i].pre[k]
              IN  \/ \E r \in db' : /\ r.user_id = tasks[ev'.i].who
                                    /\ r.title = n.title
                                    /\ r.content = n.content
                  \/ n.id \in IdsOf(ls'.notes)]_vars

\* C35 as stated: when the response to the list query of
\* loadNotesFromDatabase arrives after the user has signed out, the step
\* that handles it leaves the store in local mode and changes neither the
\* in-memory list nor the list of the Local Store, which are the ones the
\* sign-out loaded.
C35_LateLoadIgnoredAfterSignOut ==
    [][ev'.op = "hucDone" /\ tasks[ev'.i].pc = "load" /\ user = NoUser =>
          /\ useDatabase' = FALSE
          /\ notes' = notes
          /\ ls'.notes = ls.notes]_vars

\* C36 as stated: the callback of an auto-save timer that fires when nobody
\* is signed in any more, or for a note that deleteNote has removed, changes
\* neither the in-memory list nor the Local Store nor the remote table; and
\* the update request it may send for a removed note changes no row.
C36_StaleAutoSaveWritesNothing ==
    /\ [][ev'.op = "autoSave" /\ (user = NoUser \/ ev'.id \in deleted) =>
             UNCHANGED <<notes, ls, db>>]_vars
    /\ [][ev'.op = "server" /\ tasks[ev'.i].pc = "update"
             /\ tasks[ev'.i].src # 0 /\ tasks[ev'.i].id \in deleted =>
             UNCHANGED db]_vars

\* C37: once the application is initialised, its current-note id is the
\* Note Store's active note id whenever the list is not empty, and a
\* current-note id that is not empty names a note of the list.
C37_CurrentNoteIsActiveNote ==
    appPc = "initialized" =>
        /\ Len(notes) > 0 => currentNoteId = activeNoteId
        /\ currentNoteId # NoId => currentNoteId \in IdsOf(notes)

\* C38: when the user leaves the current note, by selecting another note
\* or by creating one, the text the editor holds is saved into the note
\* that is left.  Stated for a text the user has typed and for a note that
\* is in the list; k is the note that was current.
C38_LeavingSavesContent ==
    [][(/\ ev'.op \in {"switchToNote", "createNewNote"}
        /\ ev'.out \in {"switched", "created"}
        /\ ev'.k # NoId
        /\ ev'.k # ev'.id
        /\ ev'.k \in IdsOf(notes)
        /\ editor.content \in Contents)
          => \E n \in 1..Len(notes') :
                /\ notes'[n].id = ev'.k
                /\ notes'[n].content = editor.content]_vars

\* C39: in the editor an undo immediately followed by a redo restores the
\* text shown before the undo (the undo's step record keeps it in arg), and
\* undo and redo do not clear the redo stack: undo adds the text it
\* replaces to it, and redo takes its newest entry from it.
C39_UndoThenRedoRestores ==
    /\ [][ev.op = "undo" /\ ev.out = "undone" /\ ev'.op = "redo" =>
             editor'.content = ev.arg]_vars
    /\ [][ev'.op = "undo" /\ ev'.out = "undone" =>
             editor'.redoStack = Append(editor.redoStack, editor.content)]_vars
    /\ [][ev'.op = "redo" /\ ev'.out = "redone" =>
             editor'.redoStack =
                 SubSeq(editor.redoStack, 1, Len(editor.redoStack) - 1)]_vars

\* C40: the undo stack of the editor never holds more than 50 entries,
\* whatever edits, setContent, undo and redo are made; and whenever the
\* editor saves a state (every step that changes the editor other than the
\* typing itself: undo first takes the newest entry, redo first adds the
\* text shown), lastSavedState becomes the newest entry and, if that makes
\* more than 50, the oldest entry is the one dropped.
C40_UndoStackAtMost50 ==
    /\ [](Len(editor.undoStack) <= maxUndoLevels)
    /\ [][editor' # editor /\ ev'.op # "handleInput" =>
             LET old == editor.undoStack
                 pre == IF ev'.op = "undo"
                        THEN SubSeq(old, 1, Len(old) - 1)
                        ELSE IF ev'.op = "redo"
                        THEN Append(old, editor.content)
                        ELSE old
                 pushed == IF editor'.content # editor.lastSavedState
                           THEN Append(pre, editor.lastSavedState)
                           ELSE pre
             IN  editor'.undoStack =
                     IF Len(pushed) > maxUndoLevels THEN Tail(pushed)
                     ELSE pushed]_vars

\* the timer's saveState has run on a full stack and the oldest entry, the
\* empty text the editor started with, is gone
C40_Witness ==
    /\ ev.op = "saveState"
    /\ Len(editor.undoStack) = maxUndoLevels
    /\ editor.undoStack[1] = "a"
    /\ editor.undoStack[maxUndoLevels] = "b"

============================================================================
